---- MODULE Spec2Model ----
(***************************************************************************)
(* Persistent (deletion-aware) time semantics of Raphtory's edge store.    *)
(*                                                                         *)
(* One edge record is modelled: its per-layer additions and deletions      *)
(* indexes (Vec<TimeIndex<TimeIndexEntry>>), and the graph's event         *)
(* counter, together with the edge's temporal property log per layer and   *)
(* one node's timestamps and temporal property log.  The read operations   *)
(* of `impl TimeSemantics for PersistentGraph` are operators over that     *)
(* record.                                                                 *)
(*                                                                         *)
(* i64 is scaled down to the range I64_MIN..I64_MAX; every time (event     *)
(* time or query time) ranges over the whole of it, the two extremes       *)
(* included, and arithmetic saturates, wraps or panics where the source    *)
(* does.                                                                   *)
(*                                                                         *)
(* On top of the record sit the edge views (layer selection and window),   *)
(* materialize, the graph's earliest/latest time caches, and the event     *)
(* (deletion-blind) semantics of the same record.  A second, independent   *)
(* part models one DefaultTVec under push and insert, and a third the      *)
(* Python GraphServer: the caller of start / stop, the server thread and   *)
(* the bridge task over their bounded(1) command channel.                  *)
(***************************************************************************)
EXTENDS Integers, Sequences, FiniteSets, TLC

VARIABLES
    additions,        \* EdgeStore.additions : one TimeIndex per layer id
    deletions,        \* EdgeStore.deletions : one TimeIndex per layer id
    seq,              \* the graph's event counter (secondary index)
    tprops,           \* EdgeStore: one temporal property log per layer id
    timestamps,       \* NodeStore.timestamps of the edge's source node
    node_tprop,       \* NodeStore: temporal property log of that node
    graph_earliest_time,  \* the graph's cache of the earliest event time
    graph_latest_time,    \* the graph's cache of the latest event time
    tvec,             \* one DefaultTVec<A>
    tvec_writes,      \* number of push and insert calls made on it
    graph_server,     \* PyGraphServer.0 of each GraphServer object
    port_taken,       \* another process answers on the port
    py,               \* the Python caller: where it is in start / stop
    result,           \* outcome of the caller's last finished call
    server_handler,   \* PyRunningGraphServer.server_handler
    chan,             \* the bounded(1) channel of BridgeCommand
    receiver,         \* the channel's receiver: "live" or "dropped"
    thread,           \* position of the server thread
    bridge,           \* position of the spawn_blocking bridge task
    cancelled,        \* the cancellation signal reached the running server
    stop_sent,        \* number of StopServer commands sent
    joins             \* number of times the server thread was joined

server_vars == <<graph_server, port_taken, py, result, server_handler, chan,
                 receiver, thread, bridge, cancelled, stop_sent, joins>>

vars == <<additions, deletions, seq, tprops, timestamps, node_tprop,
          graph_earliest_time, graph_latest_time, tvec, tvec_writes,
          server_vars>>

----------------------------------------------------------------------------
(* Bounds *)

\* greatest representable time of the scaled-down i64
MaxT == 1
\* number of layers registered in the graph
NumLayers == 2
\* number of mutations applied to the edge
MaxEvents == 2
\* greatest write time of a TVec entry (u64 scaled down to 0..MaxWriteTime)
MaxWriteTime == 2
\* number of push and insert calls made on the TVec
MaxWrites == 3
\* greatest number of polls of wait_for_server_online (timeout_ms / 200)
MaxIntervals == 1

I64_MAX == MaxT
I64_MIN == -MaxT - 1
Time == I64_MIN..I64_MAX
Layers == 0..(NumLayers - 1)
WriteTimes == 0..MaxWriteTime

----------------------------------------------------------------------------
(* Option<T>: None is the empty tuple, Some(x) the one-element tuple *)

None == <<>>
Some(x) == <<x>>
\* outcome of a call that panicked (arithmetic overflow with overflow checks)
Panic == <<"panic", "overflow">>

\* derived PartialOrd of Option<i64>: None < Some(_)
OptGT(x, y) ==
    IF x = None THEN FALSE
    ELSE IF y = None THEN TRUE
    ELSE x[1] > y[1]

----------------------------------------------------------------------------
(* TimeIndexEntry(t, seq), ordered lexicographically *)

EntryLT(a, b) == a[1] < b[1] \/ (a[1] = b[1] /\ a[2] < b[2])
EntryGE(a, b) == ~EntryLT(a, b)

\* derived PartialOrd of Option<TimeIndexEntry>
OptEntryGT(x, y) ==
    IF x = None THEN FALSE
    ELSE IF y = None THEN TRUE
    ELSE EntryLT(y[1], x[1])

\* impl From<i64> for TimeIndexEntry: TimeIndexEntry::start(t)
FromI64(t) == <<t, 0>>

saturating_add(t, n) == IF t + n > I64_MAX THEN I64_MAX ELSE t + n

\* `x - 1` on i64, as the set of outcomes the build can produce: on overflow
\* it panics when overflow checks are on and wraps when they are off
sub_one(x) ==
    IF x - 1 < I64_MIN THEN {Panic, Some(I64_MAX)} ELSE {Some(x - 1)}

\* `x + 1` on i64, as the set of outcomes the build can produce
add_one(x) ==
    IF x + 1 > I64_MAX THEN {Panic, Some(I64_MIN)} ELSE {Some(x + 1)}

----------------------------------------------------------------------------
(* TimeIndexOps over a TimeIndex, a set of entries *)

first(ix) ==
    IF ix = {} THEN None
    ELSE Some(CHOOSE e \in ix : \A o \in ix : o = e \/ EntryLT(e, o))

last(ix) ==
    IF ix = {} THEN None
    ELSE Some(CHOOSE e \in ix : \A o \in ix : o = e \/ EntryLT(o, e))

range(ix, lo, hi) == {e \in ix : lo <= e[1] /\ e[1] < hi}

active(ix, lo, hi) == range(ix, lo, hi) # {}

first_t(ix) == IF ix = {} THEN None ELSE Some(first(ix)[1][1])

last_t(ix) == IF ix = {} THEN None ELSE Some(last(ix)[1][1])

----------------------------------------------------------------------------
(* alive_before / alive_at *)

\* alive_before comparing the last events by time only (last_t for last)
alive_before_by_time(adds, dels, t) ==
    LET first_addition == first(adds)
        first_deletion == first(dels)
        last_addition_before_start == last_t(range(adds, I64_MIN, t))
        last_deletion_before_start == last_t(range(dels, I64_MIN, t))
        only_deleted ==
            IF first_addition # None /\ first_deletion # None
            THEN EntryLT(first_deletion[1], first_addition[1])
                 /\ EntryGE(first_deletion[1], FromI64(t))
            ELSE IF first_addition = None /\ first_deletion # None
            THEN EntryGE(first_deletion[1], FromI64(t))
            ELSE FALSE
    IN  only_deleted
        \/ ~OptGT(last_deletion_before_start, last_addition_before_start)

\* alive_before without the deleted-before-added prefix case
alive_before_no_prefix(adds, dels, t) ==
    OptEntryGT(last(range(adds, I64_MIN, t)), last(range(dels, I64_MIN, t)))

\* alive_before with the final comparison made non-strict (>= for >)
alive_before_nonstrict(adds, dels, t) ==
    LET first_addition == first(adds)
        first_deletion == first(dels)
        last_addition_before_start == last(range(adds, I64_MIN, t))
        last_deletion_before_start == last(range(dels, I64_MIN, t))
        only_deleted ==
            IF first_addition # None /\ first_deletion # None
            THEN EntryLT(first_deletion[1], first_addition[1])
                 /\ EntryGE(first_deletion[1], FromI64(t))
            ELSE IF first_addition = None /\ first_deletion # None
            THEN EntryGE(first_deletion[1], FromI64(t))
            ELSE FALSE
    IN  only_deleted
        \/ ~OptEntryGT(last_deletion_before_start, last_addition_before_start)

alive_before(adds, dels, t) ==
    LET first_addition == first(adds)
        first_deletion == first(dels)
        last_addition_before_start == last(range(adds, I64_MIN, t))
        last_deletion_before_start == last(range(dels, I64_MIN, t))
        only_deleted ==
            IF first_addition # None /\ first_deletion # None
            THEN EntryLT(first_deletion[1], first_addition[1])
                 /\ EntryGE(first_deletion[1], FromI64(t))
            ELSE IF first_addition = None /\ first_deletion # None
            THEN EntryGE(first_deletion[1], FromI64(t))
            ELSE FALSE
    IN  only_deleted
        \/ OptEntryGT(last_addition_before_start, last_deletion_before_start)

alive_at(adds, dels, t) ==
    LET d == first(range(dels, t, saturating_add(t, 1)))
        a == first(range(adds, t, saturating_add(t, 1)))
        deleted_at_start ==
            IF d # None /\ a # None THEN EntryLT(d[1], a[1])
            ELSE IF d # None /\ a = None THEN TRUE
            ELSE FALSE
    IN  ~deleted_at_start /\ alive_before(adds, dels, t)

----------------------------------------------------------------------------
(* The edge record and its mutations *)

TypeOK ==
    /\ seq \in 0..MaxEvents
    /\ Len(additions) <= NumLayers
    /\ Len(deletions) <= NumLayers
    /\ Len(tprops) <= NumLayers
    /\ timestamps \subseteq Time
    /\ graph_earliest_time \in {None} \cup {Some(t) : t \in Time}
    /\ graph_latest_time \in {None} \cup {Some(t) : t \in Time}
    /\ tvec.kind \in {"Empty", "One", "Vec"}
    /\ tvec_writes \in 0..MaxWrites
    /\ Len(chan) <= 1
    /\ receiver \in {"live", "dropped"}
    /\ server_handler \in {"absent", "Some", "None"}

Init ==
    /\ additions = <<>>
    /\ deletions = <<>>
    /\ seq = 0
    /\ tprops = <<>>
    /\ timestamps = {}
    /\ node_tprop = {}
    /\ graph_earliest_time = None
    /\ graph_latest_time = None
    /\ tvec = [kind |-> "Empty", vs |-> <<>>, t_index |-> [t \in WriteTimes |-> {}]]
    /\ tvec_writes = 0
    /\ graph_server = <<"Some", "absent">>
    /\ port_taken = FALSE
    /\ py = [pc |-> "idle", polls |-> 0, in_start |-> FALSE]
    /\ result = "none"
    /\ server_handler = "absent"
    /\ chan = <<>>
    /\ receiver = "live"
    /\ thread = "none"
    /\ bridge = "none"
    /\ cancelled = FALSE
    /\ stop_sent = 0
    /\ joins = 0

\* every mutation stamped t moves the two caches of the graph
update_time(t) ==
    /\ graph_earliest_time' =
          IF graph_earliest_time = None THEN Some(t)
          ELSE IF t < graph_earliest_time[1] THEN Some(t) ELSE graph_earliest_time
    /\ graph_latest_time' =
          IF graph_latest_time = None THEN Some(t)
          ELSE IF t > graph_latest_time[1] THEN Some(t) ELSE graph_latest_time

\* a mutation that carries no property update
NO_PROPS == None

\* the property updates a mutation may carry: none, or one value of the
\* modelled property that no earlier update carried
PropInputs == {NO_PROPS, Some(seq)}

\* Vec::resize_with(layer + 1, Default::default) followed by TimeIndex::insert
index_mut_insert(vec, layer, entry) ==
    [i \in 1..(IF Len(vec) <= layer THEN layer + 1 ELSE Len(vec)) |->
        LET old == IF i <= Len(vec) THEN vec[i] ELSE {}
        IN  IF i = layer + 1 THEN old \cup {entry} ELSE old]

add_edge(t, layer, props) ==
    /\ seq < MaxEvents
    /\ additions' = index_mut_insert(additions, layer, <<t, seq>>)
    /\ tprops' = IF props = NO_PROPS THEN tprops
                 ELSE index_mut_insert(tprops, layer, <<<<t, seq>>, props[1]>>)
    /\ timestamps' = timestamps \cup {t}
    /\ seq' = seq + 1
    /\ update_time(t)
    /\ UNCHANGED <<deletions, node_tprop, tvec, tvec_writes, server_vars>>

delete_edge(t, layer) ==
    /\ seq < MaxEvents
    /\ deletions' = index_mut_insert(deletions, layer, <<t, seq>>)
    /\ timestamps' = timestamps \cup {t}
    /\ seq' = seq + 1
    /\ update_time(t)
    /\ UNCHANGED <<additions, tprops, node_tprop, tvec, tvec_writes, server_vars>>

add_node(t, props) ==
    /\ seq < MaxEvents
    /\ timestamps' = timestamps \cup {t}
    /\ node_tprop' = IF props = NO_PROPS THEN node_tprop
                     ELSE node_tprop \cup {<<<<t, seq>>, props[1]>>}
    /\ seq' = seq + 1
    /\ update_time(t)
    /\ UNCHANGED <<additions, deletions, tprops, tvec, tvec_writes,
                   server_vars>>

----------------------------------------------------------------------------
(* LayerIds and the per-layer iterators of the edge record *)

Max2(a, b) == IF a >= b THEN a ELSE b

\* ascending sequence of the elements of a finite set of layer ids
SortedSeq(S) ==
    SelectSeq([i \in 1..NumLayers |-> i - 1], LAMBDA l : l \in S)

LayerNone == [kind |-> "None", ids |-> {}]
LayerAll == [kind |-> "All", ids |-> {}]
LayerOne(id) == [kind |-> "One", ids |-> {id}]
LayerMultiple(ids) == [kind |-> "Multiple", ids |-> ids]

\* every canonical layer selection: Multiple is never empty nor a singleton
LayerIds ==
    {LayerNone, LayerAll}
    \cup {LayerOne(id) : id \in Layers}
    \cup {LayerMultiple(ids) : ids \in {S \in SUBSET Layers : Cardinality(S) >= 2}}

\* the edge record held by the store
Edge == [additions |-> additions, deletions |-> deletions]

\* Vec::get(id).unwrap_or(&TimeIndex::Empty)
get_or_empty(vec, id) == IF id < Len(vec) THEN vec[id + 1] ELSE {}

layer_ids_iter(e, layer_ids) ==
    IF layer_ids.kind = "None" THEN <<>>
    ELSE IF layer_ids.kind = "All"
    THEN [i \in 1..Max2(Len(e.additions), Len(e.deletions)) |-> i - 1]
    ELSE SortedSeq(layer_ids.ids)

\* the additions indexes of the selected layers that the record holds
additions_iter(e, layer_ids) ==
    LET ids == SelectSeq(layer_ids_iter(e, layer_ids),
                         LAMBDA l : l < Len(e.additions))
    IN  [i \in 1..Len(ids) |-> e.additions[ids[i] + 1]]

\* deletions_iter that walks the selected layers in descending order, which
\* pairs a layer's additions with another layer's deletions
deletions_iter_reversed(e, layer_ids) ==
    LET ids == SelectSeq(layer_ids_iter(e, layer_ids),
                         LAMBDA l : l < Len(e.deletions))
    IN  [i \in 1..Len(ids) |-> e.deletions[ids[Len(ids) + 1 - i] + 1]]

\* the deletions indexes of the selected layers that the record holds
deletions_iter(e, layer_ids) ==
    LET ids == SelectSeq(layer_ids_iter(e, layer_ids),
                         LAMBDA l : l < Len(e.deletions))
    IN  [i \in 1..Len(ids) |-> e.deletions[ids[i] + 1]]

\* (layer, additions, deletions) of every selected layer, absent = empty
updates_iter(e, layer_ids) ==
    LET ids == layer_ids_iter(e, layer_ids)
    IN  [i \in 1..Len(ids) |->
            [layer |-> ids[i],
             additions |-> get_or_empty(e.additions, ids[i]),
             deletions |-> get_or_empty(e.deletions, ids[i])]]

\* itertools zip_longest
zip_longest(xs, ys) ==
    [i \in 1..Max2(Len(xs), Len(ys)) |->
        IF i <= Len(xs) /\ i <= Len(ys)
        THEN [tag |-> "Both", left |-> xs[i], right |-> ys[i]]
        ELSE IF i <= Len(xs)
        THEN [tag |-> "Left", left |-> xs[i], right |-> {}]
        ELSE [tag |-> "Right", left |-> {}, right |-> ys[i]]]

\* EdgeStore::active: any addition of a selected layer inside w
edge_active(e, layer_ids, w) ==
    LET ids == layer_ids_iter(e, layer_ids)
    IN  \E i \in 1..Len(ids) :
            active(get_or_empty(e.additions, ids[i]), w.start, w.end)

edge_alive_at_end(e, t, layer_ids) ==
    LET zipped == zip_longest(additions_iter(e, layer_ids),
                              deletions_iter(e, layer_ids))
    IN  \E i \in 1..Len(zipped) :
            IF zipped[i].tag = "Both"
            THEN alive_before(zipped[i].left, zipped[i].right, t)
            ELSE IF zipped[i].tag = "Left"
            THEN active(zipped[i].left, I64_MIN, t)
            ELSE active(zipped[i].right, t, I64_MAX)

edge_alive_at_start(e, t, layer_ids) ==
    LET zipped == zip_longest(additions_iter(e, layer_ids),
                              deletions_iter(e, layer_ids))
    IN  \E i \in 1..Len(zipped) :
            IF zipped[i].tag = "Both"
            THEN alive_at(zipped[i].left, zipped[i].right, t)
            ELSE IF zipped[i].tag = "Left"
            THEN (IF first_t(zipped[i].left) = None THEN FALSE
                  ELSE first_t(zipped[i].left)[1] <= t)
            ELSE OptGT(first_t(zipped[i].right), Some(t))

\* include_edge_window that forgets the edges carried in from before
include_edge_window_active_only(e, w, layer_ids) ==
    edge_active(e, layer_ids, w)

include_edge_window(e, w, layer_ids) ==
    edge_active(e, layer_ids, w) \/ edge_alive_at_start(e, w.start, layer_ids)

----------------------------------------------------------------------------
(* Edge references and the time queries on them *)

\* EdgeRef: optional pinned time (an entry) and optional pinned layer
BareEdge == [time |-> None, layer |-> None]

\* LayerIds::constrain_from_edge
constrain_from_edge(layer_ids, eref) ==
    IF eref.layer = None THEN layer_ids
    ELSE IF layer_ids.kind = "All" \/ eref.layer[1] \in layer_ids.ids
    THEN LayerOne(eref.layer[1])
    ELSE LayerNone

\* union view of a per-layer vector over the selected layers
layered_index(e, vec, layer_ids) ==
    LET ids == layer_ids_iter(e, layer_ids)
    IN  UNION {get_or_empty(vec, ids[i]) : i \in 1..Len(ids)}

edge_additions(eref, layer_ids) ==
    layered_index(Edge, Edge.additions, constrain_from_edge(layer_ids, eref))

edge_deletions(eref, layer_ids) ==
    layered_index(Edge, Edge.deletions, constrain_from_edge(layer_ids, eref))

MinOpt(x, y) == IF x <= y THEN x ELSE y

\* Option::unwrap_or
unwrap_or(o, dflt) == IF o = None THEN dflt ELSE o[1]

\* greatest element of a set of Option<i64> produced by flat_map(..).max()
MaxOfSet(S) == IF S = {} THEN None ELSE Some(CHOOSE x \in S : \A y \in S : y <= x)

\* edge_earliest_time that looks at the additions only
edge_earliest_time_additions_only(eref, layer_ids) ==
    IF eref.time # None THEN Some(eref.time[1][1])
    ELSE first_t(edge_additions(eref, layer_ids))

edge_earliest_time(eref, layer_ids) ==
    IF eref.time # None THEN Some(eref.time[1][1])
    ELSE IF edge_alive_at_start(Edge, I64_MIN, layer_ids) THEN Some(I64_MIN)
    ELSE first_t(edge_additions(eref, layer_ids))

edge_earliest_time_window(eref, w, layer_ids) ==
    IF edge_alive_at_start(Edge, w.start, layer_ids) THEN Some(w.start)
    ELSE first_t(range(edge_additions(eref, layer_ids), w.start, w.end))

edge_latest_time(eref, layer_ids) ==
    IF eref.time # None
    THEN LET t == eref.time[1][1]
         IN  Some(MinOpt(
                unwrap_or(first_t(range(edge_additions(eref, layer_ids),
                                        saturating_add(t, 1), I64_MAX)), I64_MAX),
                unwrap_or(first_t(range(edge_deletions(eref, layer_ids),
                                        saturating_add(t, 1), I64_MAX)), I64_MAX)))
    ELSE IF edge_alive_at_end(Edge, I64_MAX, layer_ids) THEN Some(I64_MAX)
    ELSE last_t(edge_deletions(eref, layer_ids))

\* the set of outcomes of the call (one outcome unless `w.end - 1` overflows)
edge_latest_time_window(eref, w, layer_ids) ==
    IF eref.time # None
    THEN LET t == eref.time[1][1]
         IN  {IF dflt = Panic THEN Panic
              ELSE Some(MinOpt(
                unwrap_or(first_t(range(edge_additions(eref, layer_ids),
                                        saturating_add(t, 1), w.end)), dflt[1]),
                unwrap_or(first_t(range(edge_deletions(eref, layer_ids),
                                        saturating_add(t, 1), w.end)), dflt[1])))
              : dflt \in sub_one(w.end)}
    ELSE IF edge_alive_at_end(Edge, w.end, layer_ids) THEN sub_one(w.end)
    ELSE LET ups == updates_iter(Edge, layer_ids)
             qualifies(u) ==
                /\ range(u.deletions, w.start, w.end) # {}
                /\ \/ last_t(range(u.deletions, w.start, w.end))[1] > w.start
                   \/ active(u.additions, w.start, w.end)
         IN  {MaxOfSet({last_t(range(ups[i].deletions, w.start, w.end))[1] :
                        i \in {j \in 1..Len(ups) : qualifies(ups[j])}})}

\* edge_is_valid comparing the last events by time only (last_t for last)
edge_is_valid_by_time(eref, layer_ids) ==
    LET ups == updates_iter(Edge, layer_ids)
    IN  \E i \in 1..Len(ups) :
            OptGT(last_t(ups[i].additions), last_t(ups[i].deletions))

edge_is_valid(eref, layer_ids) ==
    LET ups == updates_iter(Edge, layer_ids)
    IN  \E i \in 1..Len(ups) :
            OptEntryGT(last(ups[i].additions), last(ups[i].deletions))

edge_is_valid_at_end(eref, layer_ids, end) ==
    edge_alive_at_end(Edge, end, layer_ids)

----------------------------------------------------------------------------
(* Exploded edge references *)

\* ascending (t, seq) sequence of the entries of a finite set of entries
SortedEntries(S) ==
    CHOOSE f \in [1..Cardinality(S) -> S] :
        \A i, j \in 1..Cardinality(S) : i < j => EntryLT(f[i], f[j])

\* EdgeRef::at(entry).at_layer(l)
at_layer(entry, l) == [time |-> Some(entry), layer |-> Some(l)]

\* the layer that holds an addition entry (seq is unique across the graph)
layer_of(e, layer_ids, entry) ==
    LET ids == layer_ids_iter(e, layer_ids)
    IN  ids[CHOOSE i \in 1..Len(ids) : entry \in get_or_empty(e.additions, ids[i])]

\* edge_exploded of the underlying graph: one reference per addition entry of
\* the selected layers, in ascending (t, seq) order
graph_edge_exploded(eref, layer_ids) ==
    LET es == SortedEntries(layered_index(Edge, Edge.additions, layer_ids))
    IN  [i \in 1..Len(es) |-> at_layer(es[i], layer_of(Edge, layer_ids, es[i]))]

\* edge_window_exploded of the underlying graph: the additions inside w
graph_edge_window_exploded(eref, w, layer_ids) ==
    LET es == SortedEntries(range(layered_index(Edge, Edge.additions, layer_ids),
                                  w.start, w.end))
    IN  [i \in 1..Len(es) |-> at_layer(es[i], layer_of(Edge, layer_ids, es[i]))]

\* edge_exploded that forgets the layers holding deletions and no additions
edge_exploded_no_deletion_only(eref, layer_ids) ==
    LET ups == updates_iter(Edge, layer_ids)
        alive(u) ==
            /\ first(u.additions) # None /\ first(u.deletions) # None
            /\ EntryLT(first(u.deletions)[1], first(u.additions)[1])
        alive_layers == SelectSeq(ups, alive)
    IN  [i \in 1..Len(alive_layers) |->
            at_layer(FromI64(I64_MIN), alive_layers[i].layer)]
        \o graph_edge_exploded(eref, layer_ids)

edge_exploded(eref, layer_ids) ==
    LET ups == updates_iter(Edge, layer_ids)
        alive(u) ==
            IF first(u.additions) # None /\ first(u.deletions) # None
            THEN EntryLT(first(u.deletions)[1], first(u.additions)[1])
            ELSE first(u.additions) = None /\ first(u.deletions) # None
        alive_layers == SelectSeq(ups, alive)
    IN  [i \in 1..Len(alive_layers) |->
            at_layer(FromI64(I64_MIN), alive_layers[i].layer)]
        \o graph_edge_exploded(eref, layer_ids)

edge_window_exploded(eref, w, layer_ids) ==
    IF w.end <= w.start THEN <<>>
    ELSE LET ups == updates_iter(Edge, layer_ids)
             alive(u) == alive_at(u.additions, u.deletions, w.start)
             alive_layers == SelectSeq(ups, alive)
         IN  [i \in 1..Len(alive_layers) |->
                 at_layer(FromI64(w.start), alive_layers[i].layer)]
             \o graph_edge_window_exploded(eref, w, layer_ids)

----------------------------------------------------------------------------
(* Exploded edge counts *)

\* greatest value of the scaled-down usize (no seq reaches it)
USIZE_MAX == MaxEvents + NumLayers

\* TimeIndexEntry::MAX
TimeIndexEntry_MAX == <<I64_MAX, USIZE_MAX>>

\* Iterator::sum over the ids of a selection
RECURSIVE SumOver(_, _)
SumOver(f, S) ==
    IF S = {} THEN 0
    ELSE LET x == CHOOSE y \in S : TRUE
         IN  f[x] + SumOver(f, S \ {x})

\* the LayerIds::One arm of edge_exploded_count
exploded_count_one(e, id) ==
    LET adds == get_or_empty(e.additions, id)
        dels == get_or_empty(e.deletions, id)
        a_first == unwrap_or(first(adds), TimeIndexEntry_MAX)
        d_first == unwrap_or(first(dels), TimeIndexEntry_MAX)
    IN  IF EntryLT(d_first, a_first)
        THEN Cardinality(adds) + 1
        ELSE Cardinality(adds)

\* edge_exploded_count that counts the addition entries only
edge_exploded_count_additions_only(e, layer_ids) ==
    SumOver([id \in Layers |-> Cardinality(get_or_empty(e.additions, id))],
            IF layer_ids.kind = "All" THEN Layers ELSE layer_ids.ids)

edge_exploded_count(e, layer_ids) ==
    IF layer_ids.kind = "None" THEN 0
    ELSE IF layer_ids.kind = "All"
    THEN SumOver([id \in Layers |-> exploded_count_one(e, id)], Layers)
    ELSE IF layer_ids.kind = "One"
    THEN exploded_count_one(e, CHOOSE id \in layer_ids.ids : TRUE)
    ELSE SumOver([id \in Layers |-> exploded_count_one(e, id)], layer_ids.ids)

\* the One arm without the reference of the layer alive at w.start
exploded_count_window_one_additions_only(e, id, w) ==
    Cardinality(range(get_or_empty(e.additions, id), w.start, w.end))

\* the LayerIds::One arm of edge_exploded_count_window
exploded_count_window_one(e, id, w) ==
    LET adds == get_or_empty(e.additions, id)
        dels == get_or_empty(e.deletions, id)
        len == Cardinality(range(adds, w.start, w.end))
    IN  IF alive_at(adds, dels, w.start) THEN len + 1 ELSE len

edge_exploded_count_window(e, layer_ids, w) ==
    IF layer_ids.kind = "None" THEN 0
    ELSE IF layer_ids.kind = "All"
    THEN SumOver([id \in Layers |-> exploded_count_window_one(e, id, w)], Layers)
    ELSE IF layer_ids.kind = "One"
    THEN exploded_count_window_one(e, CHOOSE id \in layer_ids.ids : TRUE, w)
    ELSE SumOver([id \in Layers |-> exploded_count_one(e, id)], layer_ids.ids)

----------------------------------------------------------------------------
(* Temporal property logs: a TProp is a set of writes <<entry, value>> *)

\* ascending (t, seq) sequence of a finite set of writes
SortedWrites(S) ==
    CHOOSE f \in [1..Cardinality(S) -> S] :
        \A i, j \in 1..Cardinality(S) : i < j => EntryLT(f[i][1], f[j][1])

\* TProp::last_before(t): the last write with time < t
last_before(p, t) ==
    LET b == {x \in p : x[1][1] < t}
    IN  IF b = {} THEN None
        ELSE Some(CHOOSE x \in b : \A o \in b : o = x \/ EntryLT(o[1], x[1]))

\* TProp::iter_window_t(lo..hi): (t, value) of the writes with lo <= t < hi
iter_window_t(p, lo, hi) ==
    LET ws == SortedWrites({x \in p : lo <= x[1][1] /\ x[1][1] < hi})
    IN  [i \in 1..Len(ws) |-> <<ws[i][1][1], ws[i][2]>>]

\* the property over the selected layers, None when no layer holds it
temporal_edge_prop(eref, layer_ids) ==
    LET p == layered_index(Edge, tprops, constrain_from_edge(layer_ids, eref))
    IN  IF p = {} THEN None ELSE Some(p)

\* the property of the node, None when it was never written
temporal_node_prop == IF node_tprop = {} THEN None ELSE Some(node_tprop)

temporal_edge_prop_vec_window(eref, start, end, layer_ids) ==
    LET prop == temporal_edge_prop(eref, layer_ids)
    IN  IF prop = None THEN <<>>
        ELSE IF edge_alive_at_start(Edge, start, layer_ids)
        THEN LET lb == last_before(prop[1], saturating_add(start, 1))
             IN  (IF lb = None THEN <<>> ELSE <<<<start, lb[1][2]>>>>)
                 \o iter_window_t(prop[1], saturating_add(start, 1), end)
        ELSE iter_window_t(prop[1], start, end)

TimeIndexEntry_MIN == <<I64_MIN, 0>>

\* TimeIndexEntry::start(t)
TimeIndexEntry_start(t) == <<t, 0>>

\* some selected layer holds the property
has_temporal_prop(layer_ids) == layered_index(Edge, tprops, layer_ids) # {}

\* the last deletion of the selected layers with time < t
last_deletion_before(layer_ids, t) ==
    last(range(layered_index(Edge, deletions, layer_ids), I64_MIN, t))

has_temporal_edge_prop_window(w, layer_ids) ==
    IF has_temporal_prop(layer_ids)
    THEN LET del == unwrap_or(last_deletion_before(layer_ids,
                                                   saturating_add(w.start, 1)),
                              TimeIndexEntry_MIN)
             search_start == IF EntryLT(TimeIndexEntry_start(w.start), del)
                             THEN TimeIndexEntry_start(w.start) ELSE del
             search_end == TimeIndexEntry_start(w.end)
             written(id) ==
                 \E x \in get_or_empty(tprops, id) :
                     EntryGE(x[1], search_start) /\ EntryLT(x[1], search_end)
             ids == layer_ids_iter(Edge, LayerAll)
         IN  IF layer_ids.kind = "None" THEN FALSE
             ELSE IF layer_ids.kind = "All"
             THEN \E i \in 1..Len(ids) : written(ids[i])
             ELSE \E id \in layer_ids.ids : written(id)
    ELSE FALSE

temporal_node_prop_vec_window(start, end) ==
    LET prop == temporal_node_prop
    IN  IF prop = None THEN <<>>
        ELSE LET lb == last_before(prop[1], saturating_add(start, 1))
             IN  (IF lb = None THEN <<>> ELSE <<<<start, lb[1][2]>>>>)
                 \o iter_window_t(prop[1], saturating_add(start, 1), end)

----------------------------------------------------------------------------
(* Node times: the node's timestamps are a TimeIndex<i64>, a set of times *)

\* TimeIndex<i64>::first_t
timestamps_first_t(ts) ==
    IF ts = {} THEN None ELSE Some(CHOOSE t \in ts : \A o \in ts : t <= o)

node_latest_time == Some(I64_MAX)

\* node_latest_time_window that also takes a node first seen exactly at end
node_latest_time_window_inclusive(start, end) ==
    LET first_time == timestamps_first_t(timestamps)
    IN  IF first_time = None THEN {None}
        ELSE IF first_time[1] <= end THEN sub_one(end)
        ELSE {None}

\* the set of outcomes of the call (one outcome unless `end - 1` overflows)
node_latest_time_window(start, end) ==
    LET first_time == timestamps_first_t(timestamps)
    IN  IF first_time = None THEN {None}
        ELSE IF first_time[1] < end THEN sub_one(end)
        ELSE {None}

\* timestamps().range(start..end).first_t()
timestamps_range_first_t(ts, start, end) ==
    timestamps_first_t({t \in ts : start <= t /\ t < end})

node_earliest_time_window(start, end) ==
    LET first_time == timestamps_first_t(timestamps)
    IN  IF first_time = None THEN None
        ELSE IF first_time[1] <= start
        THEN Some(unwrap_or(timestamps_range_first_t(timestamps, start, end),
                            start))
        ELSE None

include_node_window(w) ==
    LET first_time == timestamps_first_t(timestamps)
    IN  first_time # None /\ first_time[1] <= w.end

----------------------------------------------------------------------------
(* Edge history *)

\* TimeIndexOps::iter_t: the times of the entries, in ascending entry order
iter_t(ix) ==
    LET es == SortedEntries(ix)
    IN  [i \in 1..Len(es) |-> es[i][1]]

\* edge_history that also reports the deletions
edge_history_with_deletions(eref, layer_ids) ==
    iter_t(edge_additions(eref, layer_ids) \cup edge_deletions(eref, layer_ids))

edge_history(eref, layer_ids) == iter_t(edge_additions(eref, layer_ids))

edge_history_window(eref, layer_ids, w) ==
    iter_t(range(edge_additions(eref, layer_ids), w.start, w.end))

edge_deletion_history(eref, layer_ids) == iter_t(edge_deletions(eref, layer_ids))

edge_deletion_history_window(eref, w, layer_ids) ==
    iter_t(range(edge_deletions(eref, layer_ids), w.start, w.end))

----------------------------------------------------------------------------
(* Edge views: a layer selection and an optional window on the one edge *)

Min2(a, b) == IF a <= b THEN a ELSE b

EdgeViews == [layer_ids : LayerIds, w : {None} \cup {Some(w) : w \in [start : Time, end : Time]}]

\* the edge record exists once an event has been written to it
edge_exists == Len(additions) > 0 \/ Len(deletions) > 0

\* LayerOps::has_layer: the edge has an event on a selected layer
has_layers(layer_ids) ==
    IF layer_ids.kind = "None" THEN FALSE
    ELSE \E i \in 1..Max2(Len(additions), Len(deletions)) :
            /\ layer_ids.kind # "All" => (i - 1) \in layer_ids.ids
            /\ get_or_empty(additions, i - 1) \cup get_or_empty(deletions, i - 1) # {}

is_valid(v) ==
    IF v.w = None THEN edge_is_valid(BareEdge, v.layer_ids)
    ELSE edge_is_valid_at_end(BareEdge, v.layer_ids, v.w[1].end)

is_deleted(v) == ~is_valid(v)

\* the set of outcomes of latest_time on the view
latest_time(v) ==
    IF v.w = None THEN {edge_latest_time(BareEdge, v.layer_ids)}
    ELSE edge_latest_time_window(BareEdge, v.w[1], v.layer_ids)

\* window(start, end) on a view: the intersection with the view's window
window(v, start, end) ==
    IF v.w = None THEN [v EXCEPT !.w = Some([start |-> start, end |-> end])]
    ELSE [v EXCEPT !.w = Some([start |-> Max2(start, v.w[1].start),
                              end |-> Min2(end, v.w[1].end)])]

at(v, t) == window(v, t, saturating_add(t, 1))

\* a view whose window is an empty range returns empty everywhere
window_is_empty(v) == v.w # None /\ v.w[1].end <= v.w[1].start

\* has_edge(src, dst) on the view's graph; edge(src, dst) is Some iff it holds
has_edge(v) ==
    /\ edge_exists
    /\ IF v.w = None THEN has_layers(v.layer_ids)
       ELSE /\ ~window_is_empty(v)
            /\ include_edge_window(Edge, v.w[1], v.layer_ids)

----------------------------------------------------------------------------
(* materialize: the view is replayed through the mutation API *)

\* edge_layers / edge_window_layers: the layers of the edge inside the view
view_edge_layers(v) ==
    LET ls == SelectSeq(layer_ids_iter(Edge, v.layer_ids),
                        LAMBDA l : get_or_empty(additions, l)
                                     \cup get_or_empty(deletions, l) # {})
    IN  IF v.w = None THEN ls
        ELSE SelectSeq(ls, LAMBDA l : include_edge_window(Edge, v.w[1], LayerOne(l)))

\* the calls issued for one layer of the edge: add_edge at the time of every
\* exploded reference of the view, then delete_edge at every deletion
layer_calls(v, l) ==
    LET refs == IF v.w = None THEN edge_exploded(BareEdge, LayerOne(l))
                ELSE edge_window_exploded(BareEdge, v.w[1], LayerOne(l))
        dels == IF v.w = None THEN edge_deletion_history(BareEdge, LayerOne(l))
                ELSE edge_deletion_history_window(BareEdge, v.w[1], LayerOne(l))
    IN  [i \in 1..Len(refs) |->
            [op |-> "add_edge", t |-> refs[i].time[1][1], layer |-> l]]
        \o [i \in 1..Len(dels) |->
            [op |-> "delete_edge", t |-> dels[i], layer |-> l]]

RECURSIVE Concat(_)
Concat(ss) == IF ss = <<>> THEN <<>> ELSE Head(ss) \o Concat(Tail(ss))

materialize_calls(v) ==
    IF ~has_edge(v) THEN <<>>
    ELSE LET ls == view_edge_layers(v)
         IN  Concat([i \in 1..Len(ls) |-> layer_calls(v, ls[i])])

\* the edge record of a new graph after the calls, stamped 0, 1, ..
RECURSIVE replay(_, _, _)
replay(calls, n, rec) ==
    IF n > Len(calls) THEN rec
    ELSE LET c == calls[n]
         IN  replay(calls, n + 1,
                IF c.op = "add_edge"
                THEN [rec EXCEPT !.additions =
                        index_mut_insert(rec.additions, c.layer, <<c.t, n - 1>>)]
                ELSE [rec EXCEPT !.deletions =
                        index_mut_insert(rec.deletions, c.layer, <<c.t, n - 1>>)])

materialize(v) ==
    replay(materialize_calls(v), 1, [additions |-> <<>>, deletions |-> <<>>])

----------------------------------------------------------------------------
(* Global times of the graph *)

earliest_time_global == graph_earliest_time

latest_time_global == graph_latest_time

view_start == earliest_time_global

\* the set of outcomes of the call (one outcome unless `t + 1` overflows)
view_end ==
    IF latest_time_global = None THEN {None}
    ELSE add_one(latest_time_global[1])

\* TimeOps::timeline_start / timeline_end of the unwindowed graph
timeline_start == view_start

timeline_end == view_end

----------------------------------------------------------------------------
(* Event semantics: impl TimeSemantics for InnerTemporalGraph, over a record e *)

\* e.layer().map(..).unwrap_or_else(|| layer_ids)
layer_or(eref, layer_ids) ==
    IF eref.layer = None THEN layer_ids ELSE LayerOne(eref.layer[1])

event_edge_additions(e, eref, layer_ids) ==
    layered_index(e, e.additions, constrain_from_edge(layer_ids, eref))

\* include_edge_window that also admits an edge carried in from before w
event_include_edge_window_persistent(e, w, layer_ids) ==
    include_edge_window(e, w, layer_ids)

event_include_edge_window(e, w, layer_ids) == edge_active(e, layer_ids, w)

event_edge_earliest_time(e, eref, layer_ids) ==
    IF eref.time # None THEN Some(eref.time[1][1])
    ELSE first_t(event_edge_additions(e, eref, layer_ids))

event_edge_earliest_time_window(e, eref, w, layer_ids) ==
    IF eref.time # None THEN Some(eref.time[1][1])
    ELSE first_t(range(event_edge_additions(e, eref, layer_ids), w.start, w.end))

event_edge_latest_time(e, eref, layer_ids) ==
    IF eref.time # None THEN Some(eref.time[1][1])
    ELSE last_t(event_edge_additions(e, eref, layer_ids))

event_edge_latest_time_window(e, eref, w, layer_ids) ==
    IF eref.time # None THEN Some(eref.time[1][1])
    ELSE last_t(range(event_edge_additions(e, eref, layer_ids), w.start, w.end))

\* edge_t: the reference pinned at every addition of the chosen layers
event_edge_t(e, eref, layer_ids) ==
    LET es == SortedEntries(layered_index(e, e.additions, layer_or(eref, layer_ids)))
    IN  [i \in 1..Len(es) |-> [eref EXCEPT !.time = Some(es[i])]]

event_edge_window_t(e, eref, w, layer_ids) ==
    LET es == SortedEntries(range(layered_index(e, e.additions,
                                                layer_or(eref, layer_ids)),
                                  w.start, w.end))
    IN  [i \in 1..Len(es) |-> [eref EXCEPT !.time = Some(es[i])]]

\* temporal_edge_prop_vec_window that reads a pinned reference like a bare one
event_temporal_edge_prop_vec_window_unpinned(eref, t_start, t_end, layer_ids) ==
    LET prop == temporal_edge_prop(eref, layer_ids)
    IN  IF prop = None THEN <<>>
        ELSE iter_window_t(prop[1], t_start, t_end)

event_temporal_edge_prop_vec_window(eref, t_start, t_end, layer_ids) ==
    LET prop == temporal_edge_prop(eref, layer_ids)
    IN  IF prop = None THEN <<>>
        ELSE IF eref.time # None
        THEN LET t == eref.time[1][1]
             IN  IF t >= t_start /\ t < t_end
                 THEN iter_window_t(prop[1], t, saturating_add(t, 1))
                 ELSE <<>>
        ELSE iter_window_t(prop[1], t_start, t_end)

event_temporal_edge_prop_vec(eref, layer_ids) ==
    LET prop == temporal_edge_prop(eref, layer_ids)
    IN  IF prop = None THEN <<>>
        ELSE IF eref.time # None
        THEN LET t == eref.time[1][1]
             IN  iter_window_t(prop[1], t, saturating_add(t, 1))
        ELSE iter_window_t(prop[1], I64_MIN, I64_MAX + 1)

----------------------------------------------------------------------------
(* Vocabulary of the properties *)

\* a window [start, end) with arbitrary bounds
Windows == [start : Time, end : Time]
NonEmptyWindows == {w \in Windows : w.start < w.end}

\* the layers a selection stands for
selected(layer_ids) ==
    IF layer_ids.kind = "None" THEN {}
    ELSE IF layer_ids.kind = "All" THEN Layers
    ELSE layer_ids.ids

\* index of a layer, an absent index counting as the empty one
A_(l) == get_or_empty(additions, l)
D_(l) == get_or_empty(deletions, l)

IsFirst(e, ix) == e \in ix /\ \A o \in ix : o = e \/ EntryLT(e, o)
IsLast(e, ix) == e \in ix /\ \A o \in ix : o = e \/ EntryLT(o, e)

----------------------------------------------------------------------------
(* C1 *)

\* the three cases of the claim, stated over the entries themselves
AliveBeforeSpec(A, D, t) ==
    \/ \E fd \in D, fa \in A :
          IsFirst(fd, D) /\ IsFirst(fa, A) /\ EntryLT(fd, fa) /\ fd[1] >= t
    \/ A = {} /\ \E fd \in D : IsFirst(fd, D) /\ fd[1] >= t
    \/ \E la \in A :
          /\ la[1] < t
          /\ \A a \in A : a[1] < t => (a = la \/ EntryLT(a, la))
          /\ \A d \in D : d[1] < t => EntryLT(d, la)

\* C1: for any additions index A, deletions index D and time t,
\* alive_before(A, D, t) is true iff first(D) < first(A) and first(D) >= t,
\* or A is empty and first(D) >= t, or the last entry of A before t is
\* greater than the last entry of D before t (an absent entry is smallest).
C1_AliveBefore ==
    \A la, ld \in Layers : \A t \in Time :
        alive_before(A_(la), D_(ld), t) <=> AliveBeforeSpec(A_(la), D_(ld), t)

\* a deletion-first layer queried before its first deletion, and a layer
\* whose last addition before t follows its last deletion before t
C1_Witness ==
    /\ \E l \in Layers : \E t \in Time :
          /\ A_(l) # {} /\ D_(l) # {}
          /\ EntryLT(first(D_(l))[1], first(A_(l))[1])
          /\ first(D_(l))[1][1] >= t
          /\ alive_before(A_(l), D_(l), t)
    /\ \E l \in Layers : \E t \in Time :
          /\ range(A_(l), I64_MIN, t) # {} /\ range(D_(l), I64_MIN, t) # {}
          /\ alive_before(A_(l), D_(l), t)

----------------------------------------------------------------------------
(* C2 *)

\* D has an entry at t and A has none at t or the first such D entry
\* precedes the first such A entry
DeletedAt(A, D, t) ==
    \E d \in D :
        /\ d[1] = t
        /\ IsFirst(d, {x \in D : x[1] = t})
        /\ \A a \in A : a[1] = t => EntryLT(d, a)

\* C2: for any A, D and t, alive_at(A, D, t) is true iff alive_before(A, D, t)
\* holds and the edge is not deleted at t.
C2_AliveAt ==
    \A la, ld \in Layers : \A t \in Time :
        alive_at(A_(la), D_(ld), t)
            <=> (alive_before(A_(la), D_(ld), t) /\ ~DeletedAt(A_(la), D_(ld), t))

----------------------------------------------------------------------------
(* C3 *)

\* C3: include_edge_window(edge, w, L) is true iff some layer of L has an
\* addition with time in w, or some layer of L satisfies
\* alive_at(A_l, D_l, w.start), an absent index counting as empty.
C3_IncludeEdgeWindow ==
    \A w \in Windows : \A L \in LayerIds :
        include_edge_window(Edge, w, L)
            <=> \/ \E l \in selected(L) : \E a \in A_(l) :
                      w.start <= a[1] /\ a[1] < w.end
                \/ \E l \in selected(L) : alive_at(A_(l), D_(l), w.start)

----------------------------------------------------------------------------
(* C4 *)

\* C4: edge_alive_at_end(e, t, L), and edge_is_valid_at_end with it, equals
\* the disjunction over the selected layers l of alive_before(A_l, D_l, t),
\* an absent additions or deletions index counting as the empty index.
C4_EdgeAliveAtEnd ==
    \A t \in Time : \A L \in LayerIds :
        /\ edge_alive_at_end(Edge, t, L)
              <=> \E l \in selected(L) : alive_before(A_(l), D_(l), t)
        /\ edge_is_valid_at_end(BareEdge, L, t)
              <=> \E l \in selected(L) : alive_before(A_(l), D_(l), t)

----------------------------------------------------------------------------
(* C5 *)

\* every event time of layer l is strictly earlier than t
AfterAllEvents(l, t) == \A e \in A_(l) \cup D_(l) : e[1] < t

\* the event of layer l with the greatest (t, seq) entry is an addition
LastEventIsAddition(l) == \E a \in A_(l) : IsLast(a, A_(l) \cup D_(l))

\* C5: per edge and layer, at any time t strictly later than every event
\* time, alive_before(A, D, t) is true iff the event with the greatest
\* (t, seq) entry is an addition (false when the layer has no events); the
\* unwindowed edge_is_valid over a layer selection is true iff this holds for
\* at least one selected layer.
C5_StateMachine ==
    /\ \A l \in Layers : \A t \in Time :
          AfterAllEvents(l, t)
              => (alive_before(A_(l), D_(l), t) <=> LastEventIsAddition(l))
    /\ \A L \in LayerIds :
          edge_is_valid(BareEdge, L)
              <=> \E l \in selected(L) : LastEventIsAddition(l)

\* a layer re-added after a deletion, observed from a later time
C5_Witness ==
    \E l \in Layers : \E t \in Time :
        /\ AfterAllEvents(l, t) /\ D_(l) # {} /\ LastEventIsAddition(l)
        /\ alive_before(A_(l), D_(l), t)
        /\ edge_is_valid(BareEdge, LayerOne(l))
        /\ edge_is_valid(BareEdge, LayerAll)

----------------------------------------------------------------------------
(* C6, C7 *)

\* the edge's only events are one deletion and one addition on layer l, both
\* at time t, issued in the given order
OnlyDeleteThenAdd(l, t) ==
    /\ \A o \in Layers \ {l} : A_(o) = {} /\ D_(o) = {}
    /\ \E sd, sa \in 0..MaxEvents :
          sd < sa /\ D_(l) = {<<t, sd>>} /\ A_(l) = {<<t, sa>>}

OnlyAddThenDelete(l, t) ==
    /\ \A o \in Layers \ {l} : A_(o) = {} /\ D_(o) = {}
    /\ \E sd, sa \in 0..MaxEvents :
          sa < sd /\ D_(l) = {<<t, sd>>} /\ A_(l) = {<<t, sa>>}

\* C6: when delete_edge at t is issued before add_edge at the same t and
\* these are the edge's only events, every non-empty window ending at or
\* before t and every non-empty window starting at or after t contains the
\* edge.
C6_DeleteThenAdd ==
    \A l \in Layers : \A t \in Time :
        OnlyDeleteThenAdd(l, t) =>
            \A L \in LayerIds : \A w \in NonEmptyWindows :
                (l \in selected(L) /\ (w.end <= t \/ w.start >= t))
                    => include_edge_window(Edge, w, L)

\* the scenario at a time that has windows on both sides
C6_Witness ==
    \E l \in Layers : \E t \in Time :
        /\ OnlyDeleteThenAdd(l, t)
        /\ \E w \in NonEmptyWindows :
              w.end <= t /\ include_edge_window(Edge, w, LayerOne(l))
        /\ \E w \in NonEmptyWindows :
              w.start > t /\ include_edge_window(Edge, w, LayerOne(l))

\* C7: when add_edge at t is issued before delete_edge at the same t and
\* these are the edge's only events, a non-empty window [lo, hi) contains the
\* edge iff lo <= t < hi.
C7_AddThenDelete ==
    \A l \in Layers : \A t \in Time :
        OnlyAddThenDelete(l, t) =>
            \A L \in LayerIds : \A w \in NonEmptyWindows :
                l \in selected(L) =>
                    (include_edge_window(Edge, w, L)
                        <=> (w.start <= t /\ t < w.end))

\* the scenario at a time that has windows before it, around it and after it
C7_Witness ==
    \E l \in Layers : \E t \in Time :
        /\ OnlyAddThenDelete(l, t)
        /\ \E w \in NonEmptyWindows :
              w.end <= t /\ ~include_edge_window(Edge, w, LayerOne(l))
        /\ \E w \in NonEmptyWindows :
              w.start > t /\ ~include_edge_window(Edge, w, LayerOne(l))
        /\ \E w \in NonEmptyWindows :
              w.start = t /\ include_edge_window(Edge, w, LayerOne(l))

----------------------------------------------------------------------------
(* C8 *)

\* the edge's only event is one deletion at d on layer l
OnlyDelete(l, d) ==
    /\ \A o \in Layers \ {l} : A_(o) = {} /\ D_(o) = {}
    /\ A_(l) = {}
    /\ \E sd \in 0..MaxEvents : D_(l) = {<<d, sd>>}

\* the deletion at d on layer l was followed by the insertion of one addition
\* at an earlier time a
DeleteThenEarlierAdd(l, d, a) ==
    /\ \A o \in Layers \ {l} : A_(o) = {} /\ D_(o) = {}
    /\ a < d
    /\ \E sd, sa \in 0..MaxEvents :
          sd < sa /\ D_(l) = {<<d, sd>>} /\ A_(l) = {<<a, sa>>}

\* what the claim states of a pre-existing edge deleted at d on layer l
PreExisting(l, d) ==
    /\ OnlyDelete(l, d) =>
          \A L \in LayerIds : l \in selected(L) =>
              /\ edge_earliest_time(BareEdge, L) = Some(I64_MIN)
              /\ edge_latest_time(BareEdge, L) = Some(d)
              /\ \A w \in NonEmptyWindows :
                    w.start < d => include_edge_window(Edge, w, L)
              /\ \A w \in Windows :
                    w.start >= d => ~include_edge_window(Edge, w, L)
    /\ \A a \in Time : DeleteThenEarlierAdd(l, d, a) =>
          \A L \in LayerIds : l \in selected(L) =>
              /\ edge_earliest_time(BareEdge, L) = Some(a)
              /\ edge_latest_time(BareEdge, L) = Some(d)

\* C8 as stated: for every deletion time d
C8_PreExistingAnyTime == \A l \in Layers : \A d \in Time : PreExisting(l, d)

\* C8 amended: for every deletion time d > i64::MIN; a single deletion at
\* i64::MIN leaves no time before it, and the earliest time is then None.
C8_PreExisting ==
    /\ \A l \in Layers : \A d \in Time \ {I64_MIN} : PreExisting(l, d)
    /\ \A l \in Layers : OnlyDelete(l, I64_MIN) =>
          \A L \in LayerIds : l \in selected(L) =>
              /\ edge_earliest_time(BareEdge, L) = None
              /\ edge_latest_time(BareEdge, L) = Some(I64_MIN)
              /\ \A w \in Windows : ~include_edge_window(Edge, w, L)

\* a deletion with windows on both sides, after which an earlier addition
\* was inserted
C8_Witness ==
    \E l \in Layers : \E d \in Time \ {I64_MIN} : \E a \in Time :
        /\ DeleteThenEarlierAdd(l, d, a)
        /\ I64_MIN < a /\ d < I64_MAX
        /\ edge_earliest_time(BareEdge, LayerAll) = Some(a)
        /\ edge_latest_time(BareEdge, LayerAll) = Some(d)

----------------------------------------------------------------------------
(* C9 *)

\* layer l holds one or more additions, all before d, followed by a single
\* deletion at d; the edge has no other events
AddsThenDelete(l, d) ==
    /\ \A o \in Layers \ {l} : A_(o) = {} /\ D_(o) = {}
    /\ A_(l) # {}
    /\ \A a \in A_(l) : a[1] < d
    /\ \E sd \in 0..MaxEvents :
          D_(l) = {<<d, sd>>} /\ \A a \in A_(l) : a[2] < sd

----------------------------------------------------------------------------
(* C10 *)

\* the last deletion times inside w of the selected layers that qualify
QualifyingDeletions(w, L) ==
    {d \in Time :
        \E l \in selected(L) :
            /\ \E x \in D_(l) : x[1] = d /\ w.start <= d /\ d < w.end
            /\ \A x \in D_(l) : (w.start <= x[1] /\ x[1] < w.end) => x[1] <= d
            /\ \/ d > w.start
               \/ \E a \in A_(l) : w.start <= a[1] /\ a[1] < w.end}

\* C10: for a bare edge reference, edge_latest_time_window(e, w, L) is
\* w.end - 1 if the edge is alive at the end of the window; otherwise it is
\* the greatest qualifying last deletion of the selected layers, and None if
\* no layer qualifies (the call has that one outcome).
C10_EdgeLatestTimeWindow ==
    \A w \in Windows : \A L \in LayerIds :
        edge_latest_time_window(BareEdge, w, L) =
            {IF edge_alive_at_end(Edge, w.end, L) THEN Some(w.end - 1)
             ELSE IF QualifyingDeletions(w, L) = {} THEN None
             ELSE Some(CHOOSE d \in QualifyingDeletions(w, L) :
                         \A o \in QualifyingDeletions(w, L) : o <= d)}

----------------------------------------------------------------------------
(* C11 *)

\* the events of layer l that follow entry x in (t, seq) order
Following(l, x) == {e \in A_(l) \cup D_(l) : EntryLT(x, e)}

\* C11: for an exploded edge reference pinned at an addition, latest_time is
\* the time of the first event (addition or deletion) of its layer that
\* follows the pinned addition in (t, seq) order, and i64::MAX when no event
\* follows.
C11_ExplodedLatestTime ==
    \A L \in LayerIds :
        LET refs == graph_edge_exploded(BareEdge, L)
        IN  \A i \in 1..Len(refs) :
                LET x == refs[i].time[1]
                    l == refs[i].layer[1]
                IN  edge_latest_time(refs[i], L) =
                        IF Following(l, x) = {} THEN Some(I64_MAX)
                        ELSE Some(first(Following(l, x))[1][1])

----------------------------------------------------------------------------
(* C12 *)

\* layer l was deleted before it was first added, or never added
DeletedFirst(l) ==
    /\ D_(l) # {}
    /\ \A a \in A_(l) : EntryLT(first(D_(l))[1], a)

\* C12: edge_exploded(e, L) yields, for every selected layer whose first
\* deletion precedes its first addition or which has deletions and no
\* additions, exactly one reference pinned at i64::MIN on that layer, followed
\* by exactly one reference per addition entry of the selected layers; an
\* edge with only deletions on k distinct layers explodes into k references.
C12_EdgeExploded ==
    \A L \in LayerIds :
        LET refs == edge_exploded(BareEdge, L)
            pre == {l \in selected(L) : DeletedFirst(l)}
            n == Cardinality(pre)
            adds == UNION {A_(l) : l \in selected(L)}
        IN  /\ Len(refs) = n + Cardinality(adds)
            /\ \A i \in 1..n : refs[i].time = Some(FromI64(I64_MIN))
            /\ \A l \in pre :
                  Cardinality({i \in 1..n : refs[i].layer = Some(l)}) = 1
            /\ \A l \in selected(L) : \A a \in A_(l) :
                  Cardinality({i \in (n + 1)..Len(refs) :
                                  refs[i] = at_layer(a, l)}) = 1
            /\ (adds = {} => Len(refs) = Cardinality({l \in selected(L) : D_(l) # {}}))

\* deletions on two distinct layers and no additions: two references
C12_Witness ==
    /\ \A l \in Layers : A_(l) = {}
    /\ Cardinality({l \in Layers : D_(l) # {}}) = 2
    /\ Len(edge_exploded(BareEdge, LayerAll)) = 2
    /\ Len(edge_exploded(BareEdge, LayerMultiple({0, 1}))) = 2

----------------------------------------------------------------------------
(* C13 *)

\* |A_l| + (1 if first(D_l) < first(A_l), an empty A_l counting as later)
LayerCount(l) == Cardinality(A_(l)) + (IF DeletedFirst(l) THEN 1 ELSE 0)

\* C13: for every layer selection L, edge_exploded_count(e, L) equals the sum
\* over the selected layers of |A_l| + (1 if first(D_l) < first(A_l), an
\* empty A_l counting as later than any deletion, else 0), which is also the
\* number of references edge_exploded(e, L) yields.
C13_EdgeExplodedCount ==
    \A L \in LayerIds :
        /\ edge_exploded_count(Edge, L) =
              SumOver([l \in Layers |-> LayerCount(l)], selected(L))
        /\ edge_exploded_count(Edge, L) = Len(edge_exploded(BareEdge, L))

\* a layer deleted before its first addition, counted under One, Multiple
\* and All
C13_Witness ==
    \E l \in Layers :
        /\ A_(l) # {} /\ DeletedFirst(l)
        /\ edge_exploded_count(Edge, LayerOne(l)) = Cardinality(A_(l)) + 1
        /\ edge_exploded_count(Edge, LayerAll) = Cardinality(A_(l)) + 1
        /\ \E ids \in SUBSET Layers :
              /\ Cardinality(ids) >= 2 /\ l \in ids
              /\ edge_exploded_count(Edge, LayerMultiple(ids))
                    = Cardinality(A_(l)) + 1

----------------------------------------------------------------------------
(* C14 *)

\* |A_l /\ w| + (1 if alive_at(A_l, D_l, w.start) else 0)
LayerCountWindow(l, w) ==
    Cardinality(range(A_(l), w.start, w.end))
        + (IF alive_at(A_(l), D_(l), w.start) THEN 1 ELSE 0)

\* C14: for every layer selection L and every window w,
\* edge_exploded_count_window(e, L, w) equals the sum over the selected
\* layers l of |A_l /\ w| + (1 if alive_at(A_l, D_l, w.start) else 0).
C14_EdgeExplodedCountWindow ==
    \A L \in LayerIds : \A w \in Windows :
        edge_exploded_count_window(Edge, L, w) =
            SumOver([l \in Layers |-> LayerCountWindow(l, w)], selected(L))

----------------------------------------------------------------------------
(* C15 *)

\* the writes of the property on the selected layers
Writes(L) == UNION {get_or_empty(tprops, l) : l \in selected(L)}

\* (t, value) of the writes of P that satisfy In, in ascending order
LogOf(P, In(_)) ==
    LET ws == SortedWrites({x \in P : In(x[1][1])})
    IN  [i \in 1..Len(ws) |-> <<ws[i][1][1], ws[i][2]>>]

\* the synthetic entry at start: the last value of P written at a time
\* <= start, nothing if there is none
Synthetic(P, start) ==
    LET b == {x \in P : x[1][1] <= start}
    IN  IF b = {} THEN <<>>
        ELSE <<<<start, (CHOOSE x \in b : \A o \in b : o = x \/ EntryLT(o[1], x[1]))[2]>>>>

\* C15: the temporal log of an edge property in window [start, end) is, if
\* the edge is alive at start, one synthetic entry (start, v) where v is the
\* last value written at a time <= start (omitted if there is none) followed
\* by the writes with time in (start, end) in ascending order; if the edge is
\* not alive at start, exactly the writes with time in [start, end).
C15_EdgePropLog ==
    \A L \in LayerIds : \A w \in Windows :
        temporal_edge_prop_vec_window(BareEdge, w.start, w.end, L) =
            IF edge_alive_at_start(Edge, w.start, L)
            THEN Synthetic(Writes(L), w.start)
                 \o LogOf(Writes(L), LAMBDA t : w.start < t /\ t < w.end)
            ELSE LogOf(Writes(L), LAMBDA t : w.start <= t /\ t < w.end)

----------------------------------------------------------------------------
(* C16 *)

\* C16: the temporal log of a node property in window [start, end) is one
\* synthetic entry (start, v) carrying the last value written at a time
\* <= start (omitted if none), followed by the writes with time in
\* (start, end); so a read at t, the window [t, t + 1), has the one entry
\* (t, v) with v the value whose write time is the largest <= t.
C16_NodePropLog ==
    /\ \A w \in Windows :
          temporal_node_prop_vec_window(w.start, w.end) =
              Synthetic(node_tprop, w.start)
              \o LogOf(node_tprop, LAMBDA t : w.start < t /\ t < w.end)
    /\ \A t \in Time : \A x \in node_tprop :
          (/\ x[1][1] <= t
           /\ \A o \in node_tprop : o[1][1] <= t => (o = x \/ EntryLT(o[1], x[1])))
              => temporal_node_prop_vec_window(t, saturating_add(t, 1)) = <<<<t, x[2]>>>>

----------------------------------------------------------------------------
(* C17 *)

\* C17: nodes never expire: node_latest_time is i64::MAX for every node, and
\* node_latest_time_window(v, start, end) is end - 1 when the node's first
\* timestamp is < end and None otherwise (the call has that one outcome).
C17_NodeLatestTime ==
    /\ node_latest_time = Some(I64_MAX)
    /\ \A w \in Windows :
          node_latest_time_window(w.start, w.end) =
              {IF \E t \in timestamps : \A o \in timestamps : t <= o /\ t < w.end
               THEN Some(w.end - 1)
               ELSE None}

\* a node with several timestamps, read in a window that ends at its first
\* timestamp and in one that ends just after it
C17_Witness ==
    /\ Cardinality(timestamps) >= 2
    /\ \E t \in timestamps :
          /\ \A o \in timestamps : t <= o
          /\ t < I64_MAX
          /\ node_latest_time_window(I64_MIN, t) = {None}
          /\ node_latest_time_window(I64_MIN, t + 1) = {Some(t)}

----------------------------------------------------------------------------
(* C18 *)

\* every time of w1 is a time of w2
SubWindow(w1, w2) ==
    \A t \in Time : (w1.start <= t /\ t < w1.end) => (w2.start <= t /\ t < w2.end)

\* C18: window monotonicity: for any history, layer selection and windows
\* w1, w2 with w1 a subset of w2, an edge included in w1 is included in w2.
C18_WindowMonotonicity ==
    \A L \in LayerIds : \A w1, w2 \in Windows :
        (SubWindow(w1, w2) /\ include_edge_window(Edge, w1, L))
            => include_edge_window(Edge, w2, L)

----------------------------------------------------------------------------
(* C19 *)

\* LayerIds of a set of layer ids, in its canonical variant
ToLayerIds(S) ==
    IF S = {} THEN LayerNone
    ELSE IF Cardinality(S) = 1 THEN LayerOne(CHOOSE id \in S : TRUE)
    ELSE LayerMultiple(S)

\* every element that edge_alive_at_start / _end zips pairs the additions of
\* a layer with the deletions of that same layer
PairedByLayer(L) ==
    LET zipped == zip_longest(additions_iter(Edge, L), deletions_iter(Edge, L))
        ids == SelectSeq(layer_ids_iter(Edge, L),
                         LAMBDA l : l < Max2(Len(additions), Len(deletions)))
    IN  /\ Len(zipped) = Len(ids)
        /\ \A i \in 1..Len(zipped) :
              /\ zipped[i].left = A_(ids[i])
              /\ zipped[i].right = D_(ids[i])

\* every set of layers
LayerSets == {S : S \in SUBSET Layers}

\* the layer sets under which P holds distribute over union, and selecting
\* every layer is selecting all
Distributes(P(_)) ==
    LET holds == {S \in LayerSets : P(ToLayerIds(S))}
    IN  /\ \A S1, S2 \in LayerSets :
              (S1 \cup S2) \in holds <=> (S1 \in holds \/ S2 \in holds)
        /\ P(LayerAll) <=> Layers \in holds

\* layer distributivity in one state of the edge
LayerDistributivity ==
    /\ \A w \in NonEmptyWindows :
          Distributes(LAMBDA L : include_edge_window(Edge, w, L))
    /\ \A t \in Time :
          /\ Distributes(LAMBDA L : edge_alive_at_start(Edge, t, L))
          /\ Distributes(LAMBDA L : edge_alive_at_end(Edge, t, L))
    /\ \A L \in LayerIds : PairedByLayer(L)

\* C19: layer distributivity: at all times, for any window w and layer sets
\* L1, L2, the edge is included under the union of L1 and L2 iff it is
\* included under L1 or under L2 (a non-empty window by include_edge_window,
\* an empty one by what is left of it, edge_alive_at_start); and
\* edge_alive_at_start and edge_alive_at_end are disjunctions over the
\* selected layers, each layer's additions being paired with that same
\* layer's deletions.
C19_LayerDistributivity == []LayerDistributivity

\* both layers hold both indexes, and a window in which the edge is included
\* under the two layers together through one of them only
C19_Witness ==
    /\ Len(additions) = 2 /\ Len(deletions) = 2
    /\ \E w \in NonEmptyWindows :
          /\ include_edge_window(Edge, w, LayerMultiple({0, 1}))
          /\ ~include_edge_window(Edge, w, LayerOne(0))
          /\ include_edge_window(Edge, w, LayerOne(1))
    /\ \E w \in NonEmptyWindows :
          ~include_edge_window(Edge, w, LayerMultiple({0, 1}))

----------------------------------------------------------------------------
(* C20 *)

\* the addition entries of the selected layers
AdditionsOf(L) == UNION {A_(l) : l \in selected(L)}

\* number of positions of sequence h that hold t
Occurrences(h, t) == Cardinality({i \in 1..Len(h) : h[i] = t})

\* h holds exactly the times of the entries of ix, one position per entry
HoldsTimesOf(h, ix) ==
    \A t \in Time : Occurrences(h, t) = Cardinality({a \in ix : a[1] = t})

\* C20 as stated: history(e) is strictly increasing, contains exactly the
\* addition times (never deletion times), and its windowed form contains
\* exactly the addition times inside the window.
C20_HistoryStrictlyIncreasing ==
    \A L \in LayerIds :
        LET h == edge_history(BareEdge, L)
        IN  /\ \A i, j \in 1..Len(h) : i < j => h[i] < h[j]
            /\ HoldsTimesOf(h, AdditionsOf(L))
            /\ \A w \in Windows :
                  HoldsTimesOf(edge_history_window(BareEdge, L, w),
                               range(AdditionsOf(L), w.start, w.end))

\* C20 amended: history(e) is non-decreasing, with one position per addition
\* entry (two additions at the same time give that time twice), so it is
\* strictly increasing exactly when no two additions of the selected layers
\* share a time; it contains exactly the addition times (never deletion
\* times), and its windowed form is its restriction to the window.
C20_History ==
    \A L \in LayerIds :
        LET h == edge_history(BareEdge, L)
        IN  /\ \A i, j \in 1..Len(h) : i < j => h[i] <= h[j]
            /\ (\A i, j \in 1..Len(h) : i < j => h[i] < h[j])
                  <=> \A a, b \in AdditionsOf(L) : a[1] = b[1] => a = b
            /\ HoldsTimesOf(h, AdditionsOf(L))
            /\ \A w \in Windows :
                  edge_history_window(BareEdge, L, w)
                      = SelectSeq(h, LAMBDA t : w.start <= t /\ t < w.end)

\* additions issued in descending time order on two layers come out in
\* ascending order, and the window between them is empty
C20_Witness ==
    \E a, b \in AdditionsOf(LayerAll) :
        /\ a[1] > b[1] /\ a[2] < b[2]
        /\ \E la, lb \in Layers : la # lb /\ a \in A_(la) /\ b \in A_(lb)
        /\ edge_history(BareEdge, LayerAll) = <<b[1], a[1]>>
        /\ edge_history_window(BareEdge, LayerAll, [start |-> a[1], end |-> I64_MAX])
              = IF a[1] < I64_MAX THEN <<a[1]>> ELSE <<>>

----------------------------------------------------------------------------
(* C21 *)

\* the view at(latest_time(e)), at(i64::MAX) if latest_time is None, for
\* every outcome of latest_time that is not a panic
LatestViews(v) ==
    {at(v, unwrap_or(lt, I64_MAX)) : lt \in latest_time(v) \ {Panic}}

\* C21: for any edge view exactly one of is_valid and is_deleted holds;
\* whenever the view is deleted, the graph view at(latest_time(e))
\* (at(i64::MAX) if latest_time is None) does not contain the edge; whenever
\* it is valid, its graph view contains the edge.  (Stated for the views
\* whose window is not an empty range.)
C21_PersistentDuality ==
    edge_exists =>
        \A v \in {x \in EdgeViews : ~window_is_empty(x)} :
            /\ is_valid(v) # is_deleted(v)
            /\ is_deleted(v) =>
                  /\ Panic \notin latest_time(v)
                  /\ \A g \in LatestViews(v) : ~has_edge(g)
            /\ is_valid(v) => has_edge(v)

----------------------------------------------------------------------------
(* C22 *)

\* the graph and its windowed views (all layers)
GraphViews == {v \in EdgeViews : v.layer_ids = LayerAll}

\* count_temporal_edges of the view
count_temporal_edges(v) ==
    IF v.w = None THEN edge_exploded_count(Edge, LayerAll)
    ELSE IF window_is_empty(v) THEN 0
    ELSE edge_exploded_count_window(Edge, LayerAll, v.w[1])

\* the materialised record holds the edge
Materialised(m) == Len(m.additions) > 0 \/ Len(m.deletions) > 0

\* C22: materialising the graph or a windowed view of it yields a graph equal
\* to the view: the edge is present in one iff it is present in the other
\* (in particular when it is alive at the window start with no event inside
\* the window), and it has the same exploded-edge count in both (in
\* particular when its first event is a deletion).
C22_Materialize ==
    \A v \in GraphViews :
        LET m == materialize(v)
        IN  /\ has_edge(v) <=> Materialised(m)
            /\ has_edge(v) =>
                  edge_exploded_count(m, LayerAll) = count_temporal_edges(v)

----------------------------------------------------------------------------
(* C23 *)

\* every addition and deletion time of the edge
EventTimes ==
    {e[1] : e \in UNION {A_(l) \cup D_(l) : l \in Layers}}

\* C23: after any sequence of mutations the global earliest time is the
\* minimum and the global latest time the maximum over all addition and
\* deletion times, view_start / timeline_start is the earliest time and
\* view_end / timeline_end is the latest time + 1; all are None on an empty
\* graph.
C23_GlobalTimes ==
    IF EventTimes = {}
    THEN /\ earliest_time_global = None /\ latest_time_global = None
         /\ view_start = None /\ timeline_start = None
         /\ view_end = {None} /\ timeline_end = {None}
    ELSE LET lo == CHOOSE t \in EventTimes : \A u \in EventTimes : t <= u
             hi == CHOOSE t \in EventTimes : \A u \in EventTimes : u <= t
         IN  /\ earliest_time_global = Some(lo) /\ latest_time_global = Some(hi)
             /\ view_start = Some(lo) /\ timeline_start = Some(lo)
             /\ view_end = {Some(hi + 1)} /\ timeline_end = {Some(hi + 1)}

----------------------------------------------------------------------------
(* C24 *)

\* edge histories with the additions of the record and other deletions:
\* none, the additions themselves, and the record's deletions moved one
\* layer up
OtherDeletions ==
    {<<>>, additions, <<{}>> \o deletions}

\* the windows the answers are compared on: every non-empty one and an
\* empty one
EventWindows == NonEmptyWindows \cup {[start |-> I64_MAX, end |-> I64_MIN]}

\* the times of a sequence of pinned references
TimesOf(refs) == [i \in 1..Len(refs) |-> refs[i].time[1]]

\* the unwindowed event-semantics answers on a record
EventAnswers(e, L) ==
    <<event_edge_earliest_time(e, BareEdge, L),
      event_edge_latest_time(e, BareEdge, L),
      event_edge_t(e, BareEdge, L)>>

\* C24: the event variant ignores deletions: the answers of
\* include_edge_window, edge_earliest_time(_window), edge_latest_time(_window)
\* and the exploded enumeration are determined by the additions of the
\* selected layers alone, so two edge histories with the same additions and
\* different deletions get the same answers; the edge is included in w iff
\* it has an addition in w on a selected layer.
EventIgnoresDeletions ==
    \A L \in LayerIds :
        LET AL == AdditionsOf(L)
            es == SortedEntries(AL)
        IN  /\ EventAnswers(Edge, L)
                  = <<first_t(AL), last_t(AL),
                      [i \in 1..Len(es) |-> [time |-> Some(es[i]), layer |-> None]]>>
            /\ \A D \in OtherDeletions :
                  EventAnswers(Edge, L)
                      = EventAnswers([additions |-> additions, deletions |-> D], L)
            /\ \A w \in EventWindows :
                  LET inw == range(AL, w.start, w.end)
                  IN  /\ event_include_edge_window(Edge, w, L) <=> inw # {}
                      /\ event_edge_earliest_time_window(Edge, BareEdge, w, L)
                            = first_t(inw)
                      /\ event_edge_latest_time_window(Edge, BareEdge, w, L)
                            = last_t(inw)
                      /\ TimesOf(event_edge_window_t(Edge, BareEdge, w, L))
                            = SortedEntries(inw)

C24_EventIgnoresDeletions == []EventIgnoresDeletions

\* an edge that the persistent variant carries into a window and the event
\* variant leaves out of it
C24_Witness ==
    \E w \in NonEmptyWindows :
        /\ Len(deletions) > 0 /\ Len(additions) > 0
        /\ include_edge_window(Edge, w, LayerAll)
        /\ ~event_include_edge_window(Edge, w, LayerAll)
        /\ event_edge_t(Edge, BareEdge, LayerAll) # <<>>

----------------------------------------------------------------------------
(* C25 *)

\* a reference to the edge pinned at time t
PinnedAt(t) == [time |-> Some(FromI64(t)), layer |-> None]

\* (t, value) of the writes of the selected layers made exactly at t
WrittenAt(L, t) ==
    LET ws == SortedWrites({x \in Writes(L) : x[1][1] = t})
    IN  [i \in 1..Len(ws) |-> <<t, ws[i][2]>>]

\* C25: in event semantics, for a bare reference edge_earliest_time /
\* edge_latest_time return the first / last addition over the selected
\* layers (restricted to w in the windowed variants, None if there is none);
\* for a reference pinned at t all four return t, and the windowed temporal
\* property read returns the values written exactly at t when t is in
\* [start, end) and nothing otherwise.
C25_EventEdgeTimes ==
    /\ \A L \in LayerIds :
          LET AL == AdditionsOf(L)
          IN  /\ event_edge_earliest_time(Edge, BareEdge, L) = first_t(AL)
              /\ event_edge_latest_time(Edge, BareEdge, L) = last_t(AL)
              /\ \A w \in EventWindows :
                    LET inw == range(AL, w.start, w.end)
                    IN  /\ event_edge_earliest_time_window(Edge, BareEdge, w, L)
                              = first_t(inw)
                        /\ event_edge_latest_time_window(Edge, BareEdge, w, L)
                              = last_t(inw)
              /\ \A t \in Time :
                    LET e == PinnedAt(t)
                        written == WrittenAt(L, t)
                    IN  /\ event_edge_earliest_time(Edge, e, L) = Some(t)
                        /\ event_edge_latest_time(Edge, e, L) = Some(t)
                        /\ \A w \in EventWindows :
                              event_temporal_edge_prop_vec_window(
                                  e, w.start, w.end, L)
                                = IF w.start <= t /\ t < w.end
                                  THEN written ELSE <<>>
    /\ \A L \in {LayerNone, LayerAll}, t \in Time, w \in EventWindows :
          /\ event_edge_earliest_time_window(Edge, PinnedAt(t), w, L) = Some(t)
          /\ event_edge_latest_time_window(Edge, PinnedAt(t), w, L) = Some(t)

\* two writes at different times inside a window: the reference pinned at
\* the later one reads that value alone, and its four times are the pinned
\* time although the first addition is earlier
C25_Witness ==
    \E x, y \in Writes(LayerAll) :
        LET t == y[1][1]
            w == [start |-> x[1][1], end |-> I64_MAX]
        IN  /\ x[1][1] < t /\ t < I64_MAX
            /\ event_temporal_edge_prop_vec_window(PinnedAt(t), w.start, w.end, LayerAll)
                  = <<<<t, y[2]>>>>
            /\ event_edge_earliest_time_window(Edge, PinnedAt(t), w, LayerAll) = Some(t)
            /\ event_edge_earliest_time_window(Edge, BareEdge, w, LayerAll)
                  = Some(x[1][1])

----------------------------------------------------------------------------
(* C26 *)

EmptyWindows == {w \in Windows : w.end <= w.start}

\* C26: an empty window (w.end <= w.start) is empty everywhere in the
\* persistent variant: for every layer selection include_edge_window is
\* false, edge_window_exploded yields nothing, edge_exploded_count_window is
\* 0, and edge_earliest_time_window and edge_latest_time_window are None.
C26_EmptyWindow ==
    \A w \in EmptyWindows, L \in LayerIds :
        /\ ~include_edge_window(Edge, w, L)
        /\ edge_window_exploded(BareEdge, w, L) = <<>>
        /\ edge_exploded_count_window(Edge, L, w) = 0
        /\ edge_earliest_time_window(BareEdge, w, L) = None
        /\ edge_latest_time_window(BareEdge, w, L) = {None}

----------------------------------------------------------------------------
(* C27 *)

\* the call has one outcome, and it is not a panic
Computes(outcomes) == Cardinality(outcomes) = 1 /\ Panic \notin outcomes

\* references to the edge: bare, and pinned at any time
EdgeRefs == {BareEdge} \cup {PinnedAt(t) : t \in Time}

\* C27: for every window bound and event time of the i64 domain (w.end =
\* i64::MIN, w.start = i64::MAX and events at i64::MAX included), view_end
\* (latest + 1), node_latest_time_window (end - 1) and
\* edge_latest_time_window (w.end - 1, for pinned and bare references)
\* compute their result without integer overflow or panic.
C27_NoOverflow ==
    /\ Computes(view_end)
    /\ \A w \in Windows :
          /\ Computes(node_latest_time_window(w.start, w.end))
          /\ edge_exists =>
                \A L \in LayerIds, e \in EdgeRefs :
                    Computes(edge_latest_time_window(e, w, L))

----------------------------------------------------------------------------
(* TVec: DefaultTVec<A>, a vector of TCells with a time -> slot ids index *)

\* Range<u64> with start <= end; the end may lie one past the last time
Ranges ==
    {r \in [start : 0..(MaxWriteTime + 1), end : 0..(MaxWriteTime + 1)] :
        r.start <= r.end}

in_range(r, t) == r.start <= t /\ t < r.end

\* a TCell is its (time, value) pairs in time order, equal times in the
\* order they were written
TCell_new(t, a) == <<<<t, a>>>>

\* set(t, v) appends the pair (t, v)
TCell_set(cell, t, a) ==
    LET k == Cardinality({j \in 1..Len(cell) : cell[j][1] <= t})
    IN  SubSeq(cell, 1, k) \o <<<<t, a>>>> \o SubSeq(cell, k + 1, Len(cell))

TCell_iter_t(cell) == cell

TCell_iter(cell) == [j \in 1..Len(cell) |-> cell[j][2]]

TCell_iter_window_t(cell, r) == SelectSeq(cell, LAMBDA e : in_range(r, e[1]))

TCell_iter_window(cell, r) == TCell_iter(TCell_iter_window_t(cell, r))

\* RoaringTreemap::push: the value is added only when it is greater than
\* every value of the set
treemap_push(set, i) ==
    IF \A j \in set : j < i THEN set \cup {i} ELSE set

\* RoaringTreemap::iter: ascending ids
treemap_iter(set, n) == SelectSeq([k \in 1..n |-> k - 1], LAMBDA id : id \in set)

\* the Vec arm of push: a new slot, indexed at t
vec_push(tv, t, a) ==
    LET i == Len(tv.vs)
    IN  [kind |-> "Vec",
         vs |-> Append(tv.vs, TCell_new(t, a)),
         t_index |-> [tv.t_index EXCEPT ![t] = treemap_push(@, i)]]

RECURSIVE vec_push_all(_, _)
vec_push_all(tv, entries) ==
    IF entries = <<>> THEN tv
    ELSE vec_push_all(vec_push(tv, Head(entries)[1], Head(entries)[2]),
                      Tail(entries))

\* DefaultTVec::push as a function of the TVec
pushed(tv, t, a) ==
    CASE tv.kind = "Empty" ->
            [tv EXCEPT !.kind = "One", !.vs = <<TCell_new(t, a)>>]
      [] tv.kind = "One" ->
            vec_push(vec_push_all([tv EXCEPT !.kind = "Vec", !.vs = <<>>],
                                  TCell_iter_t(tv.vs[1])),
                     t, a)
      [] tv.kind = "Vec" -> vec_push(tv, t, a)

\* DefaultTVec::insert as a function of the TVec; the One arm ignores i
inserted(tv, t, a, i) ==
    CASE tv.kind = "One" -> [tv EXCEPT !.vs[1] = TCell_set(@, t, a)]
      [] tv.kind = "Vec" ->
            [tv EXCEPT !.vs[i + 1] = TCell_set(@, t, a),
                       !.t_index[t] = treemap_push(@, i)]

push(t, a) ==
    /\ tvec_writes < MaxWrites
    /\ tvec' = pushed(tvec, t, a)
    /\ tvec_writes' = tvec_writes + 1
    /\ UNCHANGED <<additions, deletions, seq, tprops, timestamps, node_tprop,
                   graph_earliest_time, graph_latest_time, server_vars>>

\* insert panics on the empty TVec and on a slot the vector does not have
insert(t, a, i) ==
    /\ tvec_writes < MaxWrites
    /\ tvec.kind # "Empty"
    /\ i < Len(tvec.vs)
    /\ tvec' = inserted(tvec, t, a, i)
    /\ tvec_writes' = tvec_writes + 1
    /\ UNCHANGED <<additions, deletions, seq, tprops, timestamps, node_tprop,
                   graph_earliest_time, graph_latest_time, server_vars>>

tvec_iter(tv) ==
    Concat([k \in 1..Len(tv.vs) |-> TCell_iter(tv.vs[k])])

tvec_len(tv) == Len(tvec_iter(tv))

\* t_index.range(r).flat_map(|(_, vs)| vs.iter())
RECURSIVE range_ids(_, _, _)
range_ids(tv, lo, hi) ==
    IF lo >= hi \/ lo > MaxWriteTime THEN <<>>
    ELSE treemap_iter(tv.t_index[lo], Len(tv.vs)) \o range_ids(tv, lo + 1, hi)

\* Itertools::unique: the first occurrence of every element, in order
RECURSIVE unique(_)
unique(s) ==
    IF s = <<>> THEN <<>>
    ELSE LET init == unique(SubSeq(s, 1, Len(s) - 1))
             x == s[Len(s)]
         IN  IF \E j \in 1..Len(init) : init[j] = x THEN init
             ELSE Append(init, x)

tvec_iter_window_t(tv, r) ==
    IF tv.kind = "One" THEN TCell_iter_window_t(tv.vs[1], r)
    ELSE IF tv.kind = "Vec"
         THEN LET ids == unique(range_ids(tv, r.start, r.end))
              IN  Concat([k \in 1..Len(ids) |->
                             TCell_iter_window_t(tv.vs[ids[k] + 1], r)])
         ELSE <<>>

tvec_iter_window(tv, r) ==
    IF tv.kind = "One" THEN TCell_iter_window(tv.vs[1], r)
    ELSE IF tv.kind = "Vec"
         THEN LET ids == unique(range_ids(tv, r.start, r.end))
              IN  Concat([k \in 1..Len(ids) |->
                             TCell_iter_window(tv.vs[ids[k] + 1], r)])
         ELSE <<>>

Elems(s) == {s[k] : k \in 1..Len(s)}

\* the versions a TVec stores: every (time, value) pair of every slot
Stored(tv) == UNION {Elems(tv.vs[k]) : k \in 1..Len(tv.vs)}

\* the values the push calls wrote
Pushed(tv) == {e[2] : e \in {x \in Stored(tv) : x[2][1] = "push"}}

\* the value of the next push: the number of the write and the slot id that
\* sequential ids give it (the number of pushes made before)
PushValue == <<"push", tvec_writes, Cardinality(Pushed(tvec))>>

\* the value of the next insert: the number of the write and its slot id
InsertValue(i) == <<"insert", tvec_writes, i>>

----------------------------------------------------------------------------
(* C28 *)


\* C28: after any sequence of push and insert, iter_window_t(r) and
\* iter_window(r) yield exactly the stored versions whose write time lies in
\* r, each exactly once, also when insert re-stamped a slot at a time at
\* which a slot with a larger id had been written.
C28_WindowYieldsStored ==
    \A r \in Ranges :
        LET want == {e \in Stored(tvec) : in_range(r, e[1])}
            got_t == tvec_iter_window_t(tvec, r)
            got == tvec_iter_window(tvec, r)
        IN  /\ Elems(got_t) = want
            /\ Len(got_t) = Cardinality(want)
            /\ Elems(got) = {e[2] : e \in want}
            /\ Len(got) = Cardinality(want)

----------------------------------------------------------------------------
(* C29 *)

\* the slots insert accepts: any i on the singleton (i is ignored), an
\* existing slot on the vector
Slots(tv) == IF tv.kind = "Empty" THEN {} ELSE 0..(Len(tv.vs) - 1)

\* the cell that holds slot i
slot_cell(tv, i) == IF tv.kind = "One" THEN tv.vs[1] ELSE tv.vs[i + 1]

\* insert keeps what every window yielded
KeepsYielded(tv, t2, v2, i) ==
    LET after == inserted(tv, t2, v2, i)
    IN  /\ Stored(after) = Stored(tv) \cup {<<t2, v2>>}
        /\ \A k \in 1..Len(tv.vs) :
              k # i + 1 /\ tv.kind = "Vec" => after.vs[k] = tv.vs[k]
        /\ \A r \in Ranges :
              Elems(tvec_iter_window_t(tv, r))
                  \subseteq Elems(tvec_iter_window_t(after, r))

\* a window that holds an older write time of slot i and not t2 shows the
\* older value and not v2
OlderWindowShowsOlder(tv, t2, v2, i) ==
    LET after == inserted(tv, t2, v2, i)
    IN  \A r \in Ranges, e \in Elems(slot_cell(tv, i)) :
            in_range(r, e[1]) /\ ~in_range(r, t2)
                => /\ e \in Elems(tvec_iter_window_t(after, r))
                   /\ <<t2, v2>> \notin Elems(tvec_iter_window_t(after, r))

\* a window that starts at t2 shows no version written before t2
WindowFromT2HidesOlder(tv, t2, v2, i) ==
    LET after == inserted(tv, t2, v2, i)
    IN  \A r \in Ranges :
            r.start = t2
                => \A e \in Elems(tvec_iter_window_t(after, r)) : e[1] >= t2

\* C29: insert(t2, v2, i) leaves every stored version of slot i and of
\* every other slot unchanged: what a window yielded before the insert it
\* yields after it; a window that holds an older write time of slot i and
\* not t2 shows the older value and not v2; a window that starts at t2
\* shows no version written before t2.
C29_InsertFrame ==
    \A t2 \in WriteTimes, i \in Slots(tvec) :
        /\ KeepsYielded(tvec, t2, InsertValue(i), i)
        /\ OlderWindowShowsOlder(tvec, t2, InsertValue(i), i)
        /\ WindowFromT2HidesOlder(tvec, t2, InsertValue(i), i)

----------------------------------------------------------------------------
(* C30 *)

\* the write times of a sequence of versions never go down
Ascending(times) ==
    \A j, k \in 1..Len(times) : j < k => times[j] <= times[k]

\* iter_window yields the values of iter_window_t, in its order
SameOrder(tv, r) ==
    tvec_iter_window(tv, r) = TCell_iter(tvec_iter_window_t(tv, r))

\* iter yields slot 0 first, then slot 1, ..., every stored version once
SlotOrder(tv) ==
    LET all == tvec_iter(tv)
    IN  /\ Elems(all) = {e[2] : e \in Stored(tv)}
        /\ Len(all) = Cardinality(Stored(tv))
        /\ \A j, k \in 1..Len(all) :
              j < k =>
                  \E a, b \in 1..Len(tv.vs) :
                      /\ a <= b
                      /\ all[j] \in Elems(TCell_iter(tv.vs[a]))
                      /\ all[k] \in Elems(TCell_iter(tv.vs[b]))

\* C30: iter_window(r) and iter_window_t(r) yield their versions in
\* ascending write-time order, whatever the push order and the slot of a
\* version; iter() yields every stored version exactly once in slot order,
\* so len is the number of pushes plus the number of inserts.
C30_IterationOrder ==
    /\ \A r \in Ranges :
          /\ Ascending([k \in 1..Len(tvec_iter_window_t(tvec, r)) |->
                           tvec_iter_window_t(tvec, r)[k][1]])
          /\ SameOrder(tvec, r)
    /\ SlotOrder(tvec)
    /\ tvec_len(tvec) = tvec_writes

----------------------------------------------------------------------------
(* GraphServer: PyGraphServer::start, the server thread, the bridge task   *)
(* and the PyRunningGraphServer handle                                     *)

graph_vars == <<additions, deletions, seq, tprops, timestamps, node_tprop,
                graph_earliest_time, graph_latest_time, tvec, tvec_writes>>

Idle == [pc |-> "idle", polls |-> 0, in_start |-> FALSE]

\* reqwest::blocking::get(url) answers 200: the server of this thread is
\* serving, or another process holds the port
is_online == thread = "serving" \/ port_taken

\* take_server_ownership on a consumed GraphServer object: start, run and
\* with_* return the error
take_server_ownership_err(o) ==
    /\ py.pc = "idle"
    /\ graph_server[o] = "None"
    /\ result' = "server: consumed"
    /\ UNCHANGED <<graph_server, port_taken, py, server_handler, chan,
                   receiver, thread, bridge, cancelled, stop_sent, joins>>
    /\ UNCHANGED graph_vars

\* with_vectorised / with_*_function: the object is consumed, a new one returned
with_function ==
    /\ py.pc = "idle"
    /\ graph_server = <<"Some", "absent">>
    /\ graph_server' = <<"None", "Some">>
    /\ result' = "with: ok"
    /\ UNCHANGED <<port_taken, py, server_handler, chan, receiver, thread,
                   bridge, cancelled, stop_sent, joins>>
    /\ UNCHANGED graph_vars

\* start, up to thread::spawn; n = timeout_ms / WAIT_CHECK_INTERVAL_MILLIS
start(o, n, taken) ==
    /\ py.pc = "idle"
    /\ graph_server[o] = "Some"
    /\ thread = "none"
    /\ graph_server' = [graph_server EXCEPT ![o] = "None"]
    /\ port_taken' = taken
    /\ thread' = "spawned"
    /\ py' = [pc |-> "new", polls |-> n, in_start |-> TRUE]
    /\ result' = "none"
    /\ UNCHANGED <<server_handler, chan, receiver, bridge, cancelled,
                   stop_sent, joins>>
    /\ UNCHANGED graph_vars

\* PyRunningGraphServer::new(join_handle, sender, port)?: the client is
\* built with a GET; on failure start returns the error and the join handle
\* and the sender are dropped
new ==
    /\ py.pc = "new"
    /\ IF is_online
       THEN /\ server_handler' = "Some"
            /\ py' = [py EXCEPT !.pc = "wait_online"]
            /\ UNCHANGED result
       ELSE /\ result' = "start: error"
            /\ py' = Idle
            /\ UNCHANGED server_handler
    /\ UNCHANGED <<graph_server, port_taken, chan, receiver, thread, bridge,
                   cancelled, stop_sent, joins>>
    /\ UNCHANGED graph_vars

\* one turn of the loop of wait_for_server_online, or its Err after the loop
wait_for_server_online ==
    /\ py.pc = "wait_online"
    /\ IF py.polls = 0
       THEN /\ py' = [py EXCEPT !.pc = "stop_send"]
            /\ UNCHANGED result
       ELSE IF is_online
            THEN /\ py' = Idle
                 /\ result' = "start: running"
            ELSE /\ py' = [py EXCEPT !.polls = @ - 1]
                 /\ UNCHANGED result
    /\ UNCHANGED <<graph_server, port_taken, server_handler, chan, receiver,
                   thread, bridge, cancelled, stop_sent, joins>>
    /\ UNCHANGED graph_vars

\* stop() / __exit__ on the handle: apply_if_alive
stop ==
    /\ py.pc = "idle"
    /\ server_handler # "absent"
    /\ IF server_handler = "None"
       THEN /\ result' = "stop: consumed"
            /\ UNCHANGED py
       ELSE /\ py' = [pc |-> "stop_send", polls |-> 0, in_start |-> FALSE]
            /\ result' = "none"
    /\ UNCHANGED <<graph_server, port_taken, server_handler, chan, receiver,
                   thread, bridge, cancelled, stop_sent, joins>>
    /\ UNCHANGED graph_vars

\* handler.sender.send(StopServer).expect(..): blocks while the channel is
\* full, fails once the receiver is dropped
stop_server_send ==
    /\ py.pc = "stop_send"
    /\ \/ /\ receiver = "dropped"
          /\ result' = IF py.in_start THEN "start: panic" ELSE "stop: panic"
          /\ server_handler' = IF py.in_start THEN "absent" ELSE server_handler
          /\ py' = Idle
          /\ UNCHANGED <<chan, stop_sent>>
       \/ /\ receiver = "live"
          /\ chan = <<>>
          /\ chan' = <<"StopServer">>
          /\ stop_sent' = stop_sent + 1
          /\ py' = [py EXCEPT !.pc = "join"]
          /\ UNCHANGED <<result, server_handler>>
    /\ UNCHANGED <<graph_server, port_taken, receiver, thread, bridge,
                   cancelled, joins>>
    /\ UNCHANGED graph_vars

\* wait_server: the handler is taken and the thread joined
wait_server ==
    /\ py.pc = "join"
    /\ thread \in {"done_ok", "done_err"}
    /\ joins' = joins + 1
    /\ server_handler' = IF py.in_start THEN "absent" ELSE "None"
    /\ result' = IF py.in_start THEN "start: error"
                 ELSE IF thread = "done_ok" THEN "stop: ok" ELSE "stop: error"
    /\ py' = Idle
    /\ UNCHANGED <<graph_server, port_taken, chan, receiver, thread, bridge,
                   cancelled, stop_sent>>
    /\ UNCHANGED graph_vars

get_client ==
    /\ py.pc = "idle"
    /\ server_handler # "absent"
    /\ result' = IF server_handler = "Some" THEN "get_client: ok"
                 ELSE "get_client: consumed"
    /\ UNCHANGED <<graph_server, port_taken, py, server_handler, chan,
                   receiver, thread, bridge, cancelled, stop_sent, joins>>
    /\ UNCHANGED graph_vars

\* the server thread: server.start_with_port(port) and handler.await?; on
\* success the bridge task is spawned, on failure the block returns and the
\* receiver is dropped
start_with_port ==
    /\ thread = "spawned"
    /\ \/ /\ ~port_taken
          /\ thread' = "serving"
          /\ bridge' = "waiting"
          /\ UNCHANGED receiver
       \/ /\ thread' = "done_err"
          /\ receiver' = "dropped"
          /\ UNCHANGED bridge
    /\ UNCHANGED <<graph_server, port_taken, py, result, server_handler, chan,
                   cancelled, stop_sent, joins>>
    /\ UNCHANGED graph_vars

\* running_server.wait().await returns: after the cancellation signal, or
\* because the server finished on its own
running_server_wait ==
    /\ thread = "serving"
    /\ \/ thread' = "waited_ok"
       \/ ~cancelled /\ thread' = "waited_err"
    /\ UNCHANGED <<graph_server, port_taken, py, result, server_handler, chan,
                   receiver, bridge, cancelled, stop_sent, joins>>
    /\ UNCHANGED graph_vars

\* _ = cloned_sender.send(StopListening): blocks while the channel is full
send_StopListening ==
    /\ thread \in {"waited_ok", "waited_err"}
    /\ \/ receiver = "dropped" /\ UNCHANGED chan
       \/ receiver = "live" /\ chan = <<>> /\ chan' = <<"StopListening">>
    /\ thread' = IF thread = "waited_ok" THEN "draining_ok" ELSE "draining_err"
    /\ UNCHANGED <<graph_server, port_taken, py, result, server_handler,
                   receiver, bridge, cancelled, stop_sent, joins>>
    /\ UNCHANGED graph_vars

\* the runtime is dropped at the end of the thread's closure: it waits for
\* the blocking task
runtime_drop ==
    /\ thread \in {"draining_ok", "draining_err"}
    /\ bridge \in {"done", "panicked"}
    /\ thread' = IF thread = "draining_ok" THEN "done_ok" ELSE "done_err"
    /\ UNCHANGED <<graph_server, port_taken, py, result, server_handler, chan,
                   receiver, bridge, cancelled, stop_sent, joins>>
    /\ UNCHANGED graph_vars

\* the bridge task: receiver.recv()
bridge_recv ==
    /\ bridge = "waiting"
    /\ chan # <<>>
    /\ bridge' = Head(chan)
    /\ chan' = <<>>
    /\ UNCHANGED <<graph_server, port_taken, py, result, server_handler,
                   receiver, thread, cancelled, stop_sent, joins>>
    /\ UNCHANGED graph_vars

\* the bridge task: the match on the command; the closure ends and drops
\* the receiver.  blocking_send fails when the running server is gone.
bridge_command ==
    /\ bridge \in {"StopServer", "StopListening"}
    /\ receiver' = "dropped"
    /\ IF bridge = "StopListening"
       THEN bridge' = "done" /\ UNCHANGED cancelled
       ELSE IF thread = "serving"
            THEN bridge' = "done" /\ cancelled' = TRUE
            ELSE bridge' \in {"done", "panicked"} /\ UNCHANGED cancelled
    /\ UNCHANGED <<graph_server, port_taken, py, result, server_handler, chan,
                   thread, stop_sent, joins>>
    /\ UNCHANGED graph_vars

----------------------------------------------------------------------------
(* C31 *)

\* the server thread has returned
thread_finished == thread \in {"done_ok", "done_err"}

\* C31: start returns a running-server handle after the server was seen
\* online, or an error with the server stopped: whenever start has returned
\* an error after the thread was spawned, StopServer was sent and the thread
\* was joined, so no server is left running.
C31_StartErrorStopsServer ==
    /\ result = "start: running" => server_handler = "Some"
    /\ result = "start: error"
          => stop_sent >= 1 /\ joins >= 1 /\ thread_finished

----------------------------------------------------------------------------
(* C32 *)

\* w starts before and ends after every time of the set of entries
Spans(w, entries) == \A x \in entries : w.start < x[1] /\ x[1] < w.end

\* C32: for a single layer and a window that starts strictly before and ends
\* strictly after every event time of that layer,
\* edge_exploded_count_window equals edge_exploded_count; so the temporal
\* edge count of a window spanning every event equals that of the graph.
C32_FullSpanCount ==
    /\ \A l \in Layers : \A w \in Windows :
          Spans(w, A_(l) \cup D_(l))
              => edge_exploded_count_window(Edge, LayerOne(l), w)
                    = edge_exploded_count(Edge, LayerOne(l))
    /\ \A w \in Windows :
          Spans(w, UNION {A_(l) \cup D_(l) : l \in Layers})
              => edge_exploded_count_window(Edge, LayerAll, w)
                    = edge_exploded_count(Edge, LayerAll)

\* a layer deleted before its first addition under a spanning window: the
\* count is one more than the additions
C32_Witness ==
    \E l \in Layers : \E w \in Windows :
        /\ A_(l) # {} /\ DeletedFirst(l)
        /\ Spans(w, A_(l) \cup D_(l))
        /\ edge_exploded_count_window(Edge, LayerOne(l), w)
              = Cardinality(A_(l)) + 1

----------------------------------------------------------------------------
(* C33 *)

\* C33: for every layer selection L and window w,
\* edge_exploded_count_window(e, L, w) is the number of references that
\* edge_window_exploded(e, w, L) yields: one pinned at w.start per layer
\* alive at w.start, and one per addition inside w.
C33_CountIsNumberOfReferences ==
    \A L \in LayerIds : \A w \in Windows :
        edge_exploded_count_window(Edge, L, w)
            = Len(edge_window_exploded(BareEdge, w, L))

----------------------------------------------------------------------------
(* C34 *)

\* C34: node inclusion and node latest time agree on the half-open window:
\* include_node_window is true iff node_latest_time_window is Some, which is
\* iff the node's first timestamp is strictly less than end (a node first
\* seen exactly at end is not in the window).
C34_NodeInclusion ==
    \A w \in Windows :
        /\ include_node_window(w)
              <=> None \notin node_latest_time_window(w.start, w.end)
        /\ include_node_window(w)
              <=> \E t \in timestamps :
                     (\A o \in timestamps : t <= o) /\ t < w.end

----------------------------------------------------------------------------
(* C35 *)

\* C35: for a node included in a non-empty window [start, end),
\* node_earliest_time_window is Some(t) with start <= t < end and
\* t <= node_latest_time_window; a node first seen strictly inside the window
\* has its first timestamp as earliest time, a node first seen at or before
\* start has earliest time start.
C35_NodeEarliestTime ==
    \A w \in NonEmptyWindows :
        include_node_window(w) =>
            LET first_time == timestamps_first_t(timestamps)[1]
                earliest == node_earliest_time_window(w.start, w.end)
            IN  /\ earliest # None
                /\ w.start <= earliest[1] /\ earliest[1] < w.end
                /\ \A latest \in node_latest_time_window(w.start, w.end) :
                      latest # None /\ latest # Panic
                          /\ earliest[1] <= latest[1]
                /\ w.start < first_time /\ first_time < w.end
                      => earliest = Some(first_time)
                /\ first_time <= w.start => earliest = Some(w.start)

----------------------------------------------------------------------------
(* C36 *)

\* C36: for every layer selection and non-empty window,
\* has_temporal_edge_prop_window is true iff temporal_edge_prop_vec_window
\* returns a non-empty log; a value written before the edge's last deletion
\* preceding the window start is visible to both or to neither.
C36_HasPropIffLog ==
    \A L \in LayerIds : \A w \in NonEmptyWindows :
        has_temporal_edge_prop_window(w, L)
            <=> temporal_edge_prop_vec_window(BareEdge, w.start, w.end, L) # <<>>

----------------------------------------------------------------------------
(* C37 *)

\* C37: an exploded edge reference pinned at time t inside window w reports t
\* as its earliest time, edge_earliest_time_window(e at t, w, L) = t, as the
\* unwindowed edge_earliest_time does, even when the edge was already alive
\* at w.start.
C37_PinnedEarliestTime ==
    \A L \in LayerIds : \A w \in NonEmptyWindows :
        LET refs == edge_window_exploded(BareEdge, w, L)
        IN  \A i \in 1..Len(refs) :
                LET t == refs[i].time[1][1]
                IN  /\ w.start <= t /\ t < w.end
                    /\ edge_earliest_time(refs[i], L) = Some(t)
                    /\ edge_earliest_time_window(refs[i], w, L) = Some(t)

----------------------------------------------------------------------------
(* C38 *)

\* the values of slot i
slot_values(tv, i) == Elems(TCell_iter(tv.vs[i + 1]))

\* C38: slot ids are sequential and stable: the value of the (k+1)-th push
\* occupies slot k, insert(t, v, k) re-stamps the slot of that value, and the
\* number of slots is the number of pushes, also when an insert was applied
\* to the single-slot representation before the second push.
C38_SlotIds ==
    /\ Len(tvec.vs) = Cardinality(Pushed(tvec))
    /\ \A v \in Pushed(tvec) :
          v[3] < Len(tvec.vs) /\ v \in slot_values(tvec, v[3])
    /\ \A e \in Stored(tvec) :
          e[2][1] = "insert"
              => \E v \in Pushed(tvec) :
                    /\ v[3] = e[2][3]
                    /\ \E i \in 0..(Len(tvec.vs) - 1) :
                          {v, e[2]} \subseteq slot_values(tvec, i)

----------------------------------------------------------------------------
(* C39 *)

\* a stop() or __exit__ call on the handle has finished
stop_finished == result \in {"stop: ok", "stop: error", "stop: panic"}

\* what holds of a handle in every state
HandleUsedOnce ==
    /\ joins <= 1
    /\ stop_finished
          => server_handler = "None" /\ stop_sent = 1 /\ joins = 1
    /\ result \in {"stop: consumed", "get_client: consumed"}
          => server_handler = "None"
    /\ result = "server: consumed" => \E o \in 1..2 : graph_server[o] = "None"

\* no step on a consumed handle sends, joins or revives it
ConsumedStaysConsumed ==
    server_handler = "None"
        => /\ UNCHANGED <<server_handler, chan, stop_sent, joins>>
           /\ result' \in {result, "stop: consumed", "get_client: consumed",
                           "server: consumed"}

\* C39: a RunningGraphServer handle is single-use: the first stop() or
\* __exit__ sends StopServer, joins the server thread and consumes the
\* handler; the thread is joined at most once; every later stop(), __exit__
\* or get_client() returns the 'already used' error without sending; a
\* consumed GraphServer object rejects any second use with an error.
C39_SingleUse == []HandleUsedOnce /\ [][ConsumedStaysConsumed]_vars

----------------------------------------------------------------------------
(* C40 *)

\* C40: under every interleaving of the caller, the server thread and the
\* bridge task, stop() on an unconsumed handle ends without panic and returns
\* the result of the server thread, also when the thread already finished on
\* its own or failed before it spawned the bridge task.
C40_StopReturnsThreadResult ==
    /\ result # "stop: panic"
    /\ result = "stop: ok" => thread = "done_ok" /\ joins = 1
    /\ result = "stop: error" => thread = "done_err" /\ joins = 1

----------------------------------------------------------------------------
(* Specification *)

\* edge mutations without property updates
Next ==
    \/ \E t \in Time, layer \in Layers : add_edge(t, layer, NO_PROPS)
    \/ \E t \in Time, layer \in Layers : delete_edge(t, layer)

Spec == Init /\ [][Next]_vars

\* edge mutations with property updates
NextProps ==
    \/ \E t \in Time, layer \in Layers, props \in PropInputs :
          add_edge(t, layer, props)
    \/ \E t \in Time, layer \in Layers : delete_edge(t, layer)

SpecProps == Init /\ [][NextProps]_vars

\* node mutations, and the edge mutations that touch the node
NextNode ==
    \/ \E t \in Time, props \in PropInputs : add_node(t, props)
    \/ \E t \in Time, layer \in Layers : add_edge(t, layer, NO_PROPS)
    \/ \E t \in Time, layer \in Layers : delete_edge(t, layer)

SpecNode == Init /\ [][NextNode]_vars

\* the event graph: additions only, with or without a property write
NextEvent ==
    \E t \in Time, layer \in Layers, props \in PropInputs : add_edge(t, layer, props)

SpecEvent == Init /\ [][NextEvent]_vars

\* one TVec under push and insert; the value written names the call
NextTVec ==
    \/ \E t \in WriteTimes : push(t, PushValue)
    \/ \E t \in WriteTimes, i \in 0..(MaxWrites - 1) : insert(t, InsertValue(i), i)

SpecTVec == Init /\ [][NextTVec]_vars

\* the Python caller, the server thread and the bridge task
NextServer ==
    \/ \E o \in 1..2 : take_server_ownership_err(o)
    \/ with_function
    \/ \E o \in 1..2, n \in 0..MaxIntervals, taken \in BOOLEAN : start(o, n, taken)
    \/ new
    \/ wait_for_server_online
    \/ stop
    \/ stop_server_send
    \/ wait_server
    \/ get_client
    \/ start_with_port
    \/ running_server_wait
    \/ send_StopListening
    \/ runtime_drop
    \/ bridge_recv
    \/ bridge_command

SpecServer == Init /\ [][NextServer]_vars

\* the three run to completion: a blocked send or join is taken once it can
\* proceed, the thread and the task are scheduled, and the running server
\* returns from wait once the cancellation signal has reached it
SpecServerFair ==
    /\ SpecServer
    /\ WF_vars(stop_server_send) /\ WF_vars(wait_server)
    /\ WF_vars(start_with_port) /\ WF_vars(running_server_wait /\ cancelled)
    /\ WF_vars(send_StopListening) /\ WF_vars(runtime_drop)
    /\ WF_vars(bridge_recv) /\ WF_vars(bridge_command)

\* under SpecServerFair every stop_server that was begun ends
StopTerminates == (py.pc \in {"stop_send", "join"}) ~> (py.pc = "idle")

====
